---- MODULE Spec2Model ----
(***************************************************************************)
(* Verification model of the gym-tracker E2E test harness:                 *)
(*   - e2e/agents/orchestrator.ts   runOrchestrator, main                  *)
(*   - scripts/run-agents CLI       main (exit codes)                      *)
(*   - e2e/agents/testRunner.ts     runTestRunner, createFailedResult      *)
(*   - e2e/lib/playwrightAdapter    PlaywrightAdapter.runScenario          *)
(*   - e2e/agents/analyzer.ts       runAnalyzer, analyzeError,             *)
(*                                  identifyAffectedFiles,                 *)
(*                                  determineConfidence                    *)
(*   - e2e/lib/reportGenerator.ts   generateFinalReport,                   *)
(*                                  formatReportSummary                    *)
(*   - element lookup               resolveElementSelector, expandSelector *)
(*   - e2e/lib/scenarioParser.ts    parseScenarioFile, loadAllScenarios    *)
(*   - e2e/src/parser.ts            parseScenarioFile, loadAllScenarios,   *)
(*                                  filterStepsForPlatform                 *)
(*   - e2e/src/executor.ts          TestExecutor                           *)
(*   - e2e/src/parser.ts            resolveDependencies                    *)
(* and of the workout page of the gym-tracker web app:                     *)
(*   - src/hooks/useWorkout.ts      startWorkout, addSet, removeSet        *)
(*   - src/pages/WorkoutPage.tsx    start-on-mount effect, handleFinish    *)
(*   - src/stores/workoutStore.ts   addSetLocally, removeSetLocally        *)
(*   - src/database/repositories    sessions, exercises and sets           *)
(* The variable `entry` selects which of the repository's entry points     *)
(* runs; the other entry points' variables then keep their initial value.  *)
(***************************************************************************)
EXTENDS Integers, Sequences, FiniteSets, TLC

(* ------------------------------ bounds --------------------------------- *)
\* largest number of scenario files in the scenarios directory
MaxFiles == 2
\* largest value of config.orchestrator.maxIterations that is explored
MaxIterBound == 3
\* largest number of TestResults in a state handed to generateFinalReport
MaxResults == 3
\* gym tracker: the largest number of workout sessions, of rows of
\* session_sets that addSet adds to, and of async calls in flight
MaxSessions == 2
MaxSets == 2
MaxTasks == 2

(* --------------------------- scenario documents ------------------------ *)
\* A YAML document as parseYaml returns it: which top-level keys are
\* present, and the step list when `steps` is present.
StepLists == { <<>>, <<"a">>, <<"a", "b">> }

Docs == { [hasName |-> n, hasDescription |-> d, hasSteps |-> s, steps |-> st,
           tags |-> {}] :
            n \in BOOLEAN, d \in BOOLEAN, s \in {TRUE}, st \in StepLists }
        \cup
        { [hasName |-> n, hasDescription |-> d, hasSteps |-> FALSE, steps |-> <<>>,
           tags |-> {}] :
            n \in BOOLEAN, d \in BOOLEAN }

\* well-formed documents with and without the tag `smoke`; the runs with a
\* --scenario or --tags filter are explored on directories of these
TaggedDocs ==
  { [hasName |-> TRUE, hasDescription |-> TRUE, hasSteps |-> TRUE,
     steps |-> <<"a">>, tags |-> t] : t \in { {}, {"smoke"} } }

\* directory listings: file k of the listing is dir[k]
Dirs == UNION { [1..n -> Docs] : n \in 0..MaxFiles }

TaggedDirs == UNION { [1..n -> TaggedDocs] : n \in 0..MaxFiles }

\* e2e/lib/scenarioParser.ts parseScenarioFile: raw.description.trim() and
\* raw.steps.map(...) throw a TypeError on a missing key; a missing name is
\* copied as undefined.
LibParseThrows(doc) == ~doc.hasDescription \/ ~doc.hasSteps

LibParse(doc) == [hasName |-> doc.hasName, steps |-> doc.steps, tags |-> doc.tags]

\* e2e/src/parser.ts parseScenarioFile: explicit checks of name and steps.
ParserParseThrows(doc) == ~doc.hasName \/ ~doc.hasSteps

ParserParse(doc) == [hasName |-> doc.hasName, steps |-> doc.steps, tags |-> doc.tags]

\* validateScenario: the list of validation errors of a parsed Scenario.
RECURSIVE DuplicateIds(_, _)
DuplicateIds(steps, seen) ==
  IF steps = <<>> THEN <<>>
  ELSE IF Head(steps) \in seen
       THEN <<"Duplicate step id">> \o DuplicateIds(Tail(steps), seen)
       ELSE DuplicateIds(Tail(steps), seen \cup {Head(steps)})

validateScenario(scenario) ==
  (IF ~scenario.hasName THEN <<"Scenario must have a name">> ELSE <<>>)
  \o (IF Len(scenario.steps) = 0 THEN <<"Scenario must have at least one step">> ELSE <<>>)
  \o DuplicateIds(scenario.steps, {})


(* --------------------------- e2e/src TestStep trees -------------------- *)
Platforms == {"ios", "android"}

\* a single-key action step such as {tap: "Start"}
Act(name) == [kind |-> "action", name |-> name]
\* a bare YAML string such as "- back"
Str(name) == [kind |-> "string", name |-> name]
\* any other primitive (a number, null)
Prim == [kind |-> "primitive"]
\* a {platform: {ios: [...], android: [...]}} step; either key may be absent
Branch(hasIos, ios, hasAndroid, android) ==
  [kind |-> "platform", hasIos |-> hasIos, ios |-> ios,
   hasAndroid |-> hasAndroid, android |-> android]

\* the step lists the TestExecutor is run with
TestScenarios ==
  { <<>>,
    <<Act("tap")>>,
    <<Act("tap"), Act("see")>>,
    <<Act("tap"), Branch(TRUE, <<Act("see")>>, TRUE, <<Act("notSee"), Act("log")>>), Act("wait")>>,
    <<Branch(FALSE, <<>>, TRUE, <<Act("tap")>>), Act("see")>>,
    <<Str("back"), Prim, Act("tap")>>,
    <<Branch(TRUE, <<Branch(TRUE, <<Act("tap")>>, TRUE, <<Act("see")>>), Act("log")>>,
             TRUE, <<>>), Act("wait")>> }

\* filterStepsForPlatform that copies the steps of a branch as they are
RECURSIVE filterStepsShallow(_, _)
filterStepsShallow(steps, platform) ==
  IF steps = <<>> THEN <<>>
  ELSE LET step == Head(steps)
           rest == filterStepsShallow(Tail(steps), platform)
       IN  CASE step.kind = "string"    -> <<Act(step.name)>> \o rest
             [] step.kind = "primitive" -> rest
             [] step.kind = "platform"  ->
                  (IF platform = "ios"
                   THEN (IF step.hasIos THEN step.ios ELSE <<>>)
                   ELSE (IF step.hasAndroid THEN step.android ELSE <<>>))
                  \o rest
             [] OTHER                   -> <<step>> \o rest

\* e2e/src/parser.ts filterStepsForPlatform
RECURSIVE filterStepsForPlatform(_, _)
filterStepsForPlatform(steps, platform) ==
  IF steps = <<>> THEN <<>>
  ELSE LET step == Head(steps)
           rest == filterStepsForPlatform(Tail(steps), platform)
       IN  CASE step.kind = "string"    -> <<Act(step.name)>> \o rest
             [] step.kind = "primitive" -> rest
             [] step.kind = "platform"  ->
                  (IF platform = "ios"
                   THEN (IF step.hasIos
                         THEN filterStepsForPlatform(step.ios, platform) ELSE <<>>)
                   ELSE (IF step.hasAndroid
                         THEN filterStepsForPlatform(step.android, platform) ELSE <<>>))
                  \o rest
             [] OTHER                   -> <<step>> \o rest

(* ------------------------------ configuration -------------------------- *)
\* loadConfig(): the defaults every entry point starts from
DefaultConfig ==
  [maxIterations |-> 5, stopOnFirstFailure |-> FALSE,
   autoApply |-> TRUE, screenshotOnFailure |-> TRUE]

\* the AgentConfig values runOrchestrator is explored with
Configs ==
  { [maxIterations |-> m, stopOnFirstFailure |-> s,
     autoApply |-> a, screenshotOnFailure |-> f] :
      m \in 0..MaxIterBound, s \in BOOLEAN, a \in BOOLEAN, f \in BOOLEAN }

\* scripts CLI parseArgs: --scenario <file> (0: not given) and --tags <list>
\* (hasTags FALSE: not given)
NoArgs == [scenario |-> 0, hasTags |-> FALSE, tags |-> {}]

CliArgs ==
  { NoArgs,
    [scenario |-> 1, hasTags |-> FALSE, tags |-> {}],
    [scenario |-> 0, hasTags |-> TRUE, tags |-> {"smoke"}] }

\* scripts CLI main lines 256-263: the OrchestratorInput built from the
\* arguments; args.scenario is not passed on
OrchestratorInput(cliArgs) == [hasTags |-> cliArgs.hasTags, tags |-> cliArgs.tags]

(* ------------------------------ results -------------------------------- *)
NoResult == [scenarioFile |-> 0, status |-> "none", steps |-> <<>>]

\* testRunner.ts createFailedResult: a failed TestResult without steps
createFailedResult(scenarioFile) ==
  [scenarioFile |-> scenarioFile, status |-> "failed", steps |-> <<>>]

\* OrchestratorState as runOrchestrator constructs it
InitialState ==
  [scenarios |-> <<>>, currentScenario |-> 0, iteration |-> 0,
   results |-> <<>>, analyses |-> <<>>, fixes |-> <<>>,
   status |-> "initializing"]

\* locals of PlaywrightAdapter.runScenario
InitialRun ==
  [stepResults |-> <<>>, overallStatus |-> "passed", shouldSkip |-> FALSE, i |-> 1]

\* fields and locals of a TestExecutor: the driver session, and the locals
\* of runScenario
InitialExec ==
  [driver |-> FALSE, steps |-> <<>>, stepResults |-> <<>>, failed |-> FALSE, i |-> 1]

NoExecResult == [platform |-> "none", status |-> "none", steps |-> <<>>]

(* ------------------------------ state ---------------------------------- *)
VARIABLES
  entry,              \* which entry point runs
  dir,                \* the scenarios directory: sequence of documents
  config,             \* AgentConfig handed to runOrchestrator
  pc,                 \* position of the running entry point
  loadIdx,            \* loadAllScenarios: index of the next file
  scenarioMap,        \* loadAllScenarios: the Map built so far (insertion order)
  state,              \* OrchestratorState
  scenarioIdx,        \* runOrchestrator: position of the for-loop over scenarioMap
  iteration,          \* runOrchestrator: local `iteration`
  passed,             \* runOrchestrator: local `passed`
  codingAgentPrompts, \* runOrchestrator: local `codingAgentPrompts`
  run,                \* PlaywrightAdapter.runScenario: locals
  driverCalls,        \* indexes of the steps handed to the driver in this run
  testResult,         \* the TestResult the current run attempt produced
  output,             \* OrchestratorOutput.success once returned
  exitCode,           \* process exit code, -1 while the process runs
  platform,           \* TestExecutor: config.platform
  execScenario,       \* TestExecutor: the step list of the scenario to run
  exec,               \* TestExecutor: driver session and runScenario locals
  execResult,         \* TestExecutor: the TestResult runScenario returned
  args,               \* scripts CLI: the parsed CLIArgs
  report,             \* the FinalReport generateFinalReport built, with its text summary
  analyzerInput,      \* analyzer.ts: the AnalyzerInput (test result, project files)
  analysis,           \* analyzer.ts: the outcome of runAnalyzer
  target,             \* the raw selector handed to a driver's element lookup
  lookup,             \* what the two drivers' element lookups made of `target`
  deps,               \* resolveDependencies: its arguments and locals
  db,                 \* gym tracker: the SQLite tables of sessions, exercises, sets
  queries,            \* gym tracker: the React Query cache
  store,              \* gym tracker: currentSession of the workout store
  tasks,              \* gym tracker: the async calls of useWorkout in flight
  mounted             \* gym tracker: is WorkoutPage mounted

orchVars == <<state, scenarioIdx, iteration, passed, codingAgentPrompts, output>>
loadVars == <<loadIdx, scenarioMap>>
runVars  == <<run, driverCalls, testResult>>
inputVars == <<entry, dir, config, platform, execScenario, args, analyzerInput, target>>
execVars == <<exec, execResult>>
toolVars == <<analysis, lookup>>
appVars == <<db, queries, store, tasks, mounted>>
workoutVars == <<deps, db, queries, store, tasks, mounted>>

vars == <<entry, dir, config, pc, loadIdx, scenarioMap, state, scenarioIdx,
          iteration, passed, codingAgentPrompts, run, driverCalls, testResult,
          output, exitCode, platform, execScenario, exec, execResult,
          args, report, analyzerInput, analysis, target, lookup, deps,
          db, queries, store, tasks, mounted>>

OrchestratorEntries == {"cli", "standalone"}
Entries == OrchestratorEntries \cup {"parser", "executor", "analyzer", "selector", "report", "deps", "workout"}

(* ------------------- e2e/lib/scenarioParser.ts: loadAllScenarios ------- *)
\* one turn of `for (const file of files)`: parse the file and set it in the
\* Map; an exception of parseScenarioFile leaves loadAllScenarios (and
\* runOrchestrator, which does not catch it).
LoadScenarioFile ==
  /\ entry \in OrchestratorEntries
  /\ pc = "load"
  /\ loadIdx <= Len(dir)
  /\ IF LibParseThrows(dir[loadIdx])
     THEN /\ pc' = "thrown"
          /\ UNCHANGED loadVars
     ELSE /\ scenarioMap' = Append(scenarioMap,
                              [file |-> loadIdx, scenario |-> LibParse(dir[loadIdx])])
          /\ loadIdx' = loadIdx + 1
          /\ pc' = "load"
  /\ UNCHANGED <<inputVars, workoutVars, report, toolVars, orchVars, runVars, exitCode, execVars>>

\* runOrchestrator lines 70-85: state.scenarios, the empty-set early return,
\* status := running
ScenariosLoaded ==
  /\ entry \in OrchestratorEntries
  /\ pc = "load"
  /\ loadIdx > Len(dir)
  /\ IF Len(scenarioMap) = 0
     THEN /\ state' = [state EXCEPT !.status = "failed"]
          /\ output' = "failure"
          /\ pc' = "returned"
     ELSE /\ state' = [state EXCEPT
                         !.scenarios = [k \in 1..Len(scenarioMap) |-> scenarioMap[k].scenario],
                         !.status = "running"]
          /\ output' = output
          /\ pc' = "for"
  /\ UNCHANGED <<inputVars, workoutVars, report, toolVars, loadVars, scenarioIdx, iteration, passed,
                 codingAgentPrompts, runVars, exitCode, execVars>>

(* ------------------- e2e/agents/orchestrator.ts: runOrchestrator ------- *)
\* the scenario file and Scenario the for-loop is at
CurrentFile == scenarioMap[scenarioIdx].file
CurrentScenario == scenarioMap[scenarioIdx].scenario

\* mutant of WhileGuard: the bound test admits one more turn
WhileGuardOffByOne(p, it, maxIterations) == ~p /\ it <= maxIterations

\* line 97: while (!passed && iteration < config.orchestrator.maxIterations)
WhileGuard(p, it, maxIterations) == ~p /\ it < maxIterations

\* line 123: if (iteration >= config.orchestrator.maxIterations)
LastIteration(it, maxIterations) == it >= maxIterations

\* line 166: the status a scenario that did not pass leaves behind
StatusAfterScenario(it, maxIterations) ==
  IF it >= maxIterations THEN "max_retries" ELSE "failed"

\* mutant of AllPassed: one passed result is enough
AllPassedSome(results) ==
  Len(results) > 0 /\ \E k \in 1..Len(results) : results[k].status = "passed"

\* lines 175-176: allPassed
AllPassed(results) ==
  Len(results) > 0 /\ \A k \in 1..Len(results) : results[k].status = "passed"

\* lines 178-182: the final status
FinalStatus(results, status) ==
  IF AllPassed(results) THEN "passed"
  ELSE IF status = "running" THEN "failed" ELSE status

\* head of `for (const [scenarioFile, scenario] of scenarioMap)`, lines 88-95
ForScenario ==
  /\ entry \in OrchestratorEntries
  /\ pc = "for"
  /\ IF scenarioIdx <= Len(scenarioMap)
     THEN /\ state' = [state EXCEPT !.currentScenario =
                          IF CurrentScenario.hasName THEN CurrentFile ELSE 0]
          /\ passed' = FALSE
          /\ iteration' = 0
          /\ pc' = "while"
     ELSE /\ pc' = "final"
          /\ UNCHANGED <<state, passed, iteration>>
  /\ UNCHANGED <<inputVars, workoutVars, report, toolVars, loadVars, scenarioIdx, codingAgentPrompts, output,
                 runVars, exitCode, execVars>>

\* head of the while loop, lines 97-99
WhileHead ==
  /\ entry \in OrchestratorEntries
  /\ pc = "while"
  /\ IF WhileGuard(passed, iteration, config.maxIterations)
     THEN /\ iteration' = iteration + 1
          /\ state' = [state EXCEPT !.iteration = iteration + 1]
          /\ pc' = "runner"
     ELSE /\ pc' = "afterWhile"
          /\ UNCHANGED <<iteration, state>>
  /\ UNCHANGED <<inputVars, workoutVars, report, toolVars, loadVars, scenarioIdx, passed, codingAgentPrompts,
                 output, runVars, exitCode, execVars>>

(* ------------------- e2e/agents/testRunner.ts: runTestRunner ------------ *)
\* lines 40-69: parse the scenario file again and validate it; either failure
\* returns the synthetic result at once
ParseAndValidate ==
  /\ entry \in OrchestratorEntries
  /\ pc = "runner"
  /\ IF LibParseThrows(dir[CurrentFile])
        \/ Len(validateScenario(LibParse(dir[CurrentFile]))) > 0
     THEN /\ testResult' = createFailedResult(CurrentFile)
          /\ pc' = "record"
     ELSE /\ testResult' = NoResult
          /\ pc' = "initialize"
  /\ UNCHANGED <<inputVars, workoutVars, report, toolVars, loadVars, orchVars, run, driverCalls, exitCode, execVars>>

\* lines 75-100: adapter.initialize(); when the browser cannot be launched the
\* catch block builds the synthetic result
AdapterInitialize ==
  /\ entry \in OrchestratorEntries
  /\ pc = "initialize"
  /\ \E launched \in BOOLEAN :
       IF launched
       THEN /\ pc' = "navigate"
            /\ UNCHANGED testResult
       ELSE /\ testResult' = createFailedResult(CurrentFile)
            /\ pc' = "record"
  /\ UNCHANGED <<inputVars, workoutVars, report, toolVars, loadVars, orchVars, run, driverCalls, exitCode, execVars>>

(* ------------------- PlaywrightAdapter.runScenario --------------------- *)
\* the ScenarioStep list of the scenario under test
RunSteps == LibParse(dir[CurrentFile]).steps

\* mutant of SkipAfter: shouldSkip is never set
SkipAfterNever(stepStatus) == FALSE

\* lines 310-312: a failed step makes the remaining steps skipped
SkipAfter(stepStatus) == stepStatus = "failed"

\* lines 291: the StepResult of a step that is not executed
SkippedStepResult(id) == [id |-> id, status |-> "skipped", duration |-> 0]

\* executeStep: the StepResult of an executed step; the duration is the
\* wall-clock time of the step, one tick here
ExecutedStepResult(id, status) == [id |-> id, status |-> status, duration |-> 1]

\* lines 266-286: reset the locals, page.goto(baseUrl) and waitForFunction;
\* either may reject, which leaves runScenario
Navigate ==
  /\ entry \in OrchestratorEntries
  /\ pc = "navigate"
  /\ run' = InitialRun
  /\ driverCalls' = <<>>
  /\ \E loaded \in BOOLEAN :
       IF loaded
       THEN /\ pc' = "steps"
            /\ UNCHANGED testResult
       ELSE /\ testResult' = createFailedResult(CurrentFile)
            /\ pc' = "record"
  /\ UNCHANGED <<inputVars, workoutVars, report, toolVars, loadVars, orchVars, exitCode, execVars>>

\* lines 292-301: a step after a failure is recorded as skipped
SkipStep ==
  /\ entry \in OrchestratorEntries
  /\ pc = "steps"
  /\ run.i <= Len(RunSteps)
  /\ run.shouldSkip
  /\ run' = [run EXCEPT
               !.stepResults = Append(@, SkippedStepResult(RunSteps[run.i])),
               !.i = @ + 1]
  /\ UNCHANGED <<inputVars, workoutVars, report, toolVars, loadVars, orchVars, driverCalls, testResult, pc, exitCode, execVars>>

\* lines 303-320: execute the step through the driver; on failure take the
\* failure screenshot, whose rejection leaves runScenario
ExecuteStep ==
  /\ entry \in OrchestratorEntries
  /\ pc = "steps"
  /\ run.i <= Len(RunSteps)
  /\ ~run.shouldSkip
  /\ driverCalls' = Append(driverCalls, run.i)
  /\ \E stepStatus \in {"passed", "failed"}, screenshotTaken \in BOOLEAN :
       /\ (stepStatus = "passed" \/ ~config.screenshotOnFailure) => screenshotTaken
       /\ run' = [run EXCEPT
                    !.stepResults = Append(@, ExecutedStepResult(RunSteps[run.i], stepStatus)),
                    !.overallStatus = IF stepStatus = "failed" THEN "failed" ELSE @,
                    !.shouldSkip = IF SkipAfter(stepStatus) THEN TRUE ELSE @,
                    !.i = @ + 1]
       /\ IF screenshotTaken
          THEN UNCHANGED <<pc, testResult>>
          ELSE /\ testResult' = createFailedResult(CurrentFile)
               /\ pc' = "record"
  /\ UNCHANGED <<inputVars, workoutVars, report, toolVars, loadVars, orchVars, exitCode, execVars>>

\* lines 323-334 and runTestRunner lines 102-110: the TestResult of a run that
\* reached the end of the step list
ReturnResult ==
  /\ entry \in OrchestratorEntries
  /\ pc = "steps"
  /\ run.i > Len(RunSteps)
  /\ testResult' = [scenarioFile |-> CurrentFile, status |-> run.overallStatus,
                    steps |-> run.stepResults]
  /\ pc' = "record"
  /\ UNCHANGED <<inputVars, workoutVars, report, toolVars, loadVars, orchVars, run, driverCalls, exitCode, execVars>>

(* ------------------- runOrchestrator, the loop body -------------------- *)
\* analyzer.ts line 111: testResult.steps.find((s) => s.status === 'failed')
HasFailedStep(result) ==
  \E k \in 1..Len(result.steps) : result.steps[k].status = "failed"

\* the step that find returns
FailedStep(result) ==
  result.steps[CHOOSE k \in 1..Len(result.steps) :
                 /\ result.steps[k].status = "failed"
                 /\ \A j \in 1..(k - 1) : result.steps[j].status # "failed"]

FailedStepId(result) ==
  LET k == CHOOSE k \in 1..Len(result.steps) :
             /\ result.steps[k].status = "failed"
             /\ \A j \in 1..(k - 1) : result.steps[j].status # "failed"
  IN  result.steps[k].id

\* the pass test that never succeeds
AttemptPassedNever(result) == FALSE

\* line 114: if (testResult.status === 'passed')
AttemptPassed(result) == result.status = "passed"

\* lines 112-126: push the result, leave the loop on a pass or on the last
\* iteration
RecordResult ==
  /\ entry \in OrchestratorEntries
  /\ pc = "record"
  /\ state' = [state EXCEPT !.results = Append(@, testResult)]
  /\ IF AttemptPassed(testResult)
     THEN /\ passed' = TRUE
          /\ pc' = "afterWhile"
     ELSE /\ passed' = passed
          /\ pc' = IF LastIteration(iteration, config.maxIterations)
                   THEN "afterWhile" ELSE "analyze"
  /\ run' = InitialRun
  /\ driverCalls' = <<>>
  /\ UNCHANGED <<inputVars, workoutVars, report, toolVars, loadVars, scenarioIdx, iteration, codingAgentPrompts,
                 output, testResult, exitCode, execVars>>

\* lines 128-140 and analyzer.ts runAnalyzer: a result without a failed step
\* makes runAnalyzer throw, and runOrchestrator does not catch it
RunAnalyzer ==
  /\ entry \in OrchestratorEntries
  /\ pc = "analyze"
  /\ IF ~HasFailedStep(testResult)
     THEN /\ pc' = "thrown"
          /\ UNCHANGED <<state, codingAgentPrompts>>
     ELSE LET produced == [scenarioFile |-> testResult.scenarioFile,
                           failedStepId |-> FailedStepId(testResult)]
          IN  /\ state' = [state EXCEPT !.analyses = Append(@, produced)]
              /\ codingAgentPrompts' = Append(codingAgentPrompts, produced)
              /\ pc' = "fix"
  /\ UNCHANGED <<inputVars, workoutVars, report, toolVars, loadVars, scenarioIdx, iteration, passed, output,
                 runVars, exitCode, execVars>>

\* lines 142-162: the coding agent when autoApply is set, then the
\* stopOnFirstFailure break
RunCodingAgent ==
  /\ entry \in OrchestratorEntries
  /\ pc = "fix"
  /\ state' = IF config.autoApply
              THEN [state EXCEPT !.fixes =
                      Append(@, [analysis |-> state.analyses[Len(state.analyses)]])]
              ELSE state
  /\ pc' = IF config.stopOnFirstFailure /\ ~passed THEN "afterWhile" ELSE "while"
  /\ UNCHANGED <<inputVars, workoutVars, report, toolVars, loadVars, scenarioIdx, iteration, passed,
                 codingAgentPrompts, output, runVars, exitCode, execVars>>

\* the for-loop that is never left early
StopBatchNever(stopOnFirstFailure) == FALSE

\* lines 169-171: if (config.orchestrator.stopOnFirstFailure) break
StopBatch(stopOnFirstFailure) == stopOnFirstFailure

\* lines 165-172: the status of a scenario that did not pass, and the
\* stopOnFirstFailure break of the for-loop
AfterWhile ==
  /\ entry \in OrchestratorEntries
  /\ pc = "afterWhile"
  /\ IF ~passed
     THEN /\ state' = [state EXCEPT !.status =
                         StatusAfterScenario(iteration, config.maxIterations)]
          /\ IF StopBatch(config.stopOnFirstFailure)
             THEN /\ pc' = "final"
                  /\ UNCHANGED scenarioIdx
             ELSE /\ pc' = "for"
                  /\ scenarioIdx' = scenarioIdx + 1
     ELSE /\ pc' = "for"
          /\ scenarioIdx' = scenarioIdx + 1
          /\ UNCHANGED state
  /\ UNCHANGED <<inputVars, workoutVars, report, toolVars, loadVars, iteration, passed, codingAgentPrompts,
                 output, runVars, exitCode, execVars>>

(* ------------------- e2e/lib/reportGenerator.ts ------------------------ *)
\* the roll-up in which the status of the last result wins
RollUpLastWins(status, resultStatus) == resultStatus

\* lines 76-78: a passed result makes the scenario report passed
RollUp(status, resultStatus) ==
  IF resultStatus = "passed" THEN "passed" ELSE status

\* scenarioReports.has(key) and the position of the report of `file`
HasReport(reports, file) == \E k \in 1..Len(reports) : reports[k].file = file

ReportIndex(reports, file) == CHOOSE k \in 1..Len(reports) : reports[k].file = file

\* lines 58-79: group the results by scenario file, in the order in which
\* the files first appear
RECURSIVE GroupResults(_, _)
GroupResults(results, reports) ==
  IF results = <<>> THEN reports
  ELSE LET result == Head(results)
           key == result.scenarioFile
           withKey == IF HasReport(reports, key) THEN reports
                      ELSE Append(reports, [file |-> key, status |-> "failed",
                                            iterations |-> 0, results |-> <<>>,
                                            analyses |-> <<>>, fixes |-> <<>>])
           k == ReportIndex(withKey, key)
       IN  GroupResults(Tail(results),
             [withKey EXCEPT ![k].results = Append(@, result),
                             ![k].iterations = @ + 1,
                             ![k].status = RollUp(@, result.status)])

\* lines 81-95: the analyses and fixes of each reported scenario
WithAnalysesAndFixes(reports, st) ==
  [k \in 1..Len(reports) |->
     [reports[k] EXCEPT
        !.analyses = SelectSeq(st.analyses, LAMBDA a : a.scenarioFile = reports[k].file),
        !.fixes = SelectSeq(st.fixes, LAMBDA f : f.analysis.scenarioFile = reports[k].file)]]

\* scenarios.filter((s) => s.status === status)
WithStatus(scenarios, status) == SelectSeq(scenarios, LAMBDA s : s.status = status)

\* lines 99-105: the ReportSummary
ReportSummary(scenarios, st) ==
  [totalScenarios |-> Len(scenarios),
   passed |-> Len(WithStatus(scenarios, "passed")),
   failed |-> Len(WithStatus(scenarios, "failed")),
   iterations |-> st.iteration,
   fixesApplied |-> Len(st.fixes)]

\* formatReportSummary lines 182-191: the entries of REMAINING FAILURES
RECURSIVE RemainingFailures(_)
RemainingFailures(failedScenarios) ==
  IF failedScenarios = <<>> THEN <<>>
  ELSE LET scenario == Head(failedScenarios)
           lastResult == scenario.results[Len(scenario.results)]
       IN  (IF HasFailedStep(lastResult)
            THEN << [file |-> scenario.file, step |-> FailedStep(lastResult).id] >>
            ELSE <<>>)
           \o RemainingFailures(Tail(failedScenarios))

\* formatReportSummary: the SCENARIO DETAILS blocks and the REMAINING
\* FAILURES entries of the text summary
formatReportSummary(scenarios, summary) ==
  [details |-> [k \in 1..Len(scenarios) |->
                  [file |-> scenarios[k].file, iterations |-> scenarios[k].iterations,
                   status |-> scenarios[k].status]],
   remaining |-> IF summary.failed > 0
                 THEN RemainingFailures(WithStatus(scenarios, "failed"))
                 ELSE <<>>]

generateFinalReport(st) ==
  LET scenarios == WithAnalysesAndFixes(GroupResults(st.results, <<>>), st)
      summary == ReportSummary(scenarios, st)
  IN  [generated |-> TRUE, summary |-> summary, scenarios |-> scenarios,
       text |-> formatReportSummary(scenarios, summary)]

NoReport ==
  [generated |-> FALSE,
   summary |-> [totalScenarios |-> 0, passed |-> 0, failed |-> 0, iterations |-> 0,
                fixesApplied |-> 0],
   scenarios |-> <<>>,
   text |-> [details |-> <<>>, remaining |-> <<>>]]

\* lines 174-194: the final status, the report and the return value
Finalize ==
  /\ entry \in OrchestratorEntries
  /\ pc = "final"
  /\ state' = [state EXCEPT !.status = FinalStatus(state.results, state.status)]
  /\ output' = IF FinalStatus(state.results, state.status) = "passed"
               THEN "success" ELSE "failure"
  /\ report' = generateFinalReport(state')
  /\ pc' = "returned"
  /\ UNCHANGED <<inputVars, workoutVars, toolVars, loadVars, scenarioIdx, iteration, passed,
                 codingAgentPrompts, runVars, exitCode, execVars>>

(* ------------------- the two main() of the orchestrator ---------------- *)
\* scripts CLI main, lines 255-287: exit 0 on success, exit 1 on failure and
\* in the catch block
CliExitCode(position, out) ==
  IF position = "returned" /\ out = "success" THEN 0 ELSE 1

\* orchestrator.ts main, lines 250-269: process.exit(result.success ? 0 : 1)
\* after a return; a rejection goes to main().catch(console.error), which
\* logs it and lets the process end with the default exit code 0
StandaloneExitCode(position, out) ==
  IF position = "returned" THEN (IF out = "success" THEN 0 ELSE 1) ELSE 0

MainExit ==
  /\ entry \in OrchestratorEntries
  /\ pc \in {"returned", "thrown"}
  /\ exitCode = -1
  /\ exitCode' = IF entry = "cli" THEN CliExitCode(pc, output)
                                  ELSE StandaloneExitCode(pc, output)
  /\ UNCHANGED <<inputVars, workoutVars, report, toolVars, pc, loadVars, orchVars, runVars, execVars>>

(* ------------------- e2e/src/parser.ts: loadAllScenarios --------------- *)
\* one turn of `for (const file of files)`; parseScenarioFile throws on a
\* missing name or steps and nothing catches it
ParserLoadFile ==
  /\ entry = "parser"
  /\ pc = "parser.load"
  /\ loadIdx <= Len(dir)
  /\ IF ParserParseThrows(dir[loadIdx])
     THEN /\ pc' = "parser.thrown"
          /\ UNCHANGED loadVars
     ELSE /\ scenarioMap' = Append(scenarioMap,
                              [file |-> loadIdx, scenario |-> ParserParse(dir[loadIdx])])
          /\ loadIdx' = loadIdx + 1
          /\ pc' = "parser.load"
  /\ UNCHANGED <<inputVars, workoutVars, report, toolVars, orchVars, runVars, exitCode, execVars>>

\* `return scenarios` after the last file
ParserLoaded ==
  /\ entry = "parser"
  /\ pc = "parser.load"
  /\ loadIdx > Len(dir)
  /\ pc' = "parser.returned"
  /\ UNCHANGED <<inputVars, workoutVars, report, toolVars, loadVars, orchVars, runVars, exitCode, execVars>>

(* ------------------- e2e/src/executor.ts: TestExecutor ----------------- *)
\* lines 97-98: a step that throws makes the rest of the run skipped
FailedAfter(threw) == threw

\* lines 81-85: the StepResult of a step that is not executed
ExecSkippedStepResult(step) == [step |-> step, status |-> "skipped", duration |-> 0]

\* lines 92-105: the StepResult of an executed step; the duration is the
\* wall-clock time of the step, one tick here
ExecExecutedStepResult(step, status) == [step |-> step, status |-> status, duration |-> 1]

\* initialize(): remote() gives the driver session, or rejects and leaves
\* this.driver null
ExecInitialize ==
  /\ entry = "executor"
  /\ pc = "exec.idle"
  /\ ~exec.driver
  /\ \E connected \in BOOLEAN : exec' = [exec EXCEPT !.driver = connected]
  /\ UNCHANGED <<inputVars, workoutVars, report, toolVars, pc, loadVars, orchVars, runVars, exitCode, execResult>>

\* teardown(): deleteSession and this.driver = null
ExecTeardown ==
  /\ entry = "executor"
  /\ pc \in {"exec.idle", "exec.returned", "exec.thrown"}
  /\ exec.driver
  /\ exec' = [exec EXCEPT !.driver = FALSE]
  /\ UNCHANGED <<inputVars, workoutVars, report, toolVars, pc, loadVars, orchVars, runVars, exitCode, execResult>>

\* runScenario lines 65-77: the driver check, the locals and the flattened
\* step list
ExecRunScenario ==
  /\ entry = "executor"
  /\ pc \in {"exec.idle", "exec.returned", "exec.thrown"}
  /\ IF ~exec.driver
     THEN /\ pc' = "exec.thrown"
          /\ UNCHANGED <<exec, driverCalls>>
     ELSE /\ exec' = [exec EXCEPT
                        !.steps = filterStepsForPlatform(execScenario, platform),
                        !.stepResults = <<>>, !.failed = FALSE, !.i = 1]
          /\ driverCalls' = <<>>
          /\ pc' = "exec.steps"
  /\ UNCHANGED <<inputVars, workoutVars, report, toolVars, loadVars, orchVars, run, testResult, exitCode, execResult>>

\* lines 80-87: a step after a failure is recorded as skipped
ExecSkipStep ==
  /\ entry = "executor"
  /\ pc = "exec.steps"
  /\ exec.i <= Len(exec.steps)
  /\ exec.failed
  /\ exec' = [exec EXCEPT
                !.stepResults = Append(@, ExecSkippedStepResult(exec.steps[exec.i])),
                !.i = @ + 1]
  /\ UNCHANGED <<inputVars, workoutVars, report, toolVars, pc, loadVars, orchVars, runVars, exitCode, execResult>>

\* lines 89-109: execute the step through the driver; a throw is recorded as
\* a failed step and followed by captureScreenshot, whose rejection leaves
\* runScenario
ExecExecuteStep ==
  /\ entry = "executor"
  /\ pc = "exec.steps"
  /\ exec.i <= Len(exec.steps)
  /\ ~exec.failed
  /\ driverCalls' = Append(driverCalls, exec.i)
  /\ \E threw \in BOOLEAN, screenshotTaken \in BOOLEAN :
       /\ ~threw => screenshotTaken
       /\ exec' = [exec EXCEPT
                     !.stepResults = Append(@, ExecExecutedStepResult(exec.steps[exec.i],
                                                 IF threw THEN "failed" ELSE "passed")),
                     !.failed = IF FailedAfter(threw) THEN TRUE ELSE @,
                     !.i = @ + 1]
       /\ pc' = IF screenshotTaken THEN pc ELSE "exec.thrown"
  /\ UNCHANGED <<inputVars, workoutVars, report, toolVars, loadVars, orchVars, run, testResult, exitCode, execResult>>

\* lines 112-120: the TestResult
ExecReturn ==
  /\ entry = "executor"
  /\ pc = "exec.steps"
  /\ exec.i > Len(exec.steps)
  /\ execResult' = [platform |-> platform,
                    status |-> IF exec.failed THEN "failed" ELSE "passed",
                    steps |-> exec.stepResults]
  /\ pc' = "exec.returned"
  /\ UNCHANGED <<inputVars, workoutVars, report, toolVars, loadVars, orchVars, runVars, exitCode, exec>>

(* ------------------- e2e/agents/analyzer.ts ---------------------------- *)
\* the error texts of failed steps that are explored; "" is a step that
\* failed without a message
StepErrors ==
  { "", "Could not find clickable element: Save",
    "Expected \"Session timeout\" to be visible but it was not found",
    "Expected URL to be \"/history\" but got \"/\"",
    "locator.click: Timeout 30000ms exceeded.",
    "page.goto: net::ERR_CONNECTION_REFUSED",
    "Unknown action: tap",
    "TypeError: Cannot read properties of undefined" }

\* the texts the page's console and pageerror listeners captured
ConsoleTexts ==
  { "Failed to load resource: the server responded with a status of 404",
    "Page Error: x is not defined" }

NetworkTexts == { "GET /api/templates - net::ERR_FAILED" }

\* text.includes('Error'), case-sensitive, on the texts above
IncludesError(text) ==
  text \in { "Page Error: x is not defined",
             "TypeError: Cannot read properties of undefined" }

\* FAILURE_PATTERNS, in the order of the table; `matches` is the set of the
\* step errors above that the regular expression matches (/Timeout/i also
\* matches the visibility error of an element named "Session timeout"), and
\* `message` is what getMessage returns for the one error that matches
FAILURE_PATTERNS ==
  << [matches |-> {"Could not find clickable element: Save"}, category |-> "selector",
      message |-> "Element \"Save\" not found - selector may be incorrect or element not rendered"],
     [matches |-> {"Expected \"Session timeout\" to be visible but it was not found"},
      category |-> "selector",
      message |-> "Element \"Session timeout\" not visible - may not be rendered or wrong selector"],
     [matches |-> {"locator.click: Timeout 30000ms exceeded.",
                   "Expected \"Session timeout\" to be visible but it was not found"},
      category |-> "timing",
      message |-> "Operation timed out - async operation may be slow or not completing"],
     [matches |-> {"Expected URL to be \"/history\" but got \"/\""}, category |-> "state",
      message |-> "Navigation issue: expected \"/history\" but at \"/\""],
     [matches |-> {}, category |-> "state", message |-> ""],
     [matches |-> {}, category |-> "logic", message |-> ""],
     [matches |-> {"page.goto: net::ERR_CONNECTION_REFUSED"}, category |-> "network",
      message |-> "Network request failed"] >>

\* consoleErrors.find((e) => e.includes('Error'))
FindJsError(consoleErrors) ==
  consoleErrors[CHOOSE k \in 1..Len(consoleErrors) :
                  /\ IncludesError(consoleErrors[k])
                  /\ \A j \in 1..(k - 1) : ~IncludesError(consoleErrors[j])]

\* the position of the first entry of FAILURE_PATTERNS that matches
FirstMatch(matching) == CHOOSE k \in matching : \A j \in matching : k <= j

\* the step targets that are explored; Undefined is a step parsed without a
\* target (allowed for wait and screenshot steps)
Undefined == "<undefined>"
StepTargets == { Undefined, "", "Save", "settings", "button.submit" }

\* FILE_MAPPINGS, in the order of the table; `matches` is the set of the
\* targets above whose search terms `${target} ${stepId}` the regular
\* expression matches (the step ids a and b match none)
FILE_MAPPINGS ==
  << [matches |-> {},
      files |-> <<"src/pages/TemplatePage.tsx",
                  "src/components/templates/TemplateForm.tsx",
                  "src/components/templates/TemplateList.tsx">>],
     [matches |-> {"settings"},
      files |-> <<"src/pages/HomePage.tsx", "src/components/workout/ExerciseCard.tsx",
                  "src/components/workout/ExerciseList.tsx", "src/stores/workoutStore.ts">>],
     [matches |-> {},
      files |-> <<"src/pages/HistoryPage.tsx", "src/components/history/HistoryList.tsx",
                  "src/components/history/SessionDetail.tsx">>],
     [matches |-> {"settings"}, files |-> <<"src/pages/SettingsPage.tsx">>],
     [matches |-> {"button.submit"},
      files |-> <<"src/components/common/Button.tsx", "src/components/common/Modal.tsx">>],
     [matches |-> {}, files |-> <<"src/components/common/Input.tsx">>],
     [matches |-> {}, files |-> <<"src/App.tsx">>] >>

\* the files of the project that exist (existsSync)
ProjectFiles ==
  { {},
    {"src/components/common/Button.tsx", "src/App.tsx"},
    {"src/pages/HomePage.tsx", "src/components/workout/ExerciseCard.tsx",
     "src/components/workout/ExerciseList.tsx", "src/stores/workoutStore.ts",
     "src/pages/SettingsPage.tsx", "src/components/common/Button.tsx",
     "src/components/common/Modal.tsx", "src/App.tsx"} }

SeqContains(seq, x) == \E k \in 1..Len(seq) : seq[k] = x

\* analyzeError: console errors first, then network errors, then the first
\* matching pattern, then the selector fallback; rootCause is the sequence
\* of the parts of the template literal
analyzeError(failedStep, result) ==
  LET error == failedStep.error
      matching == { k \in 1..Len(FAILURE_PATTERNS) : error \in FAILURE_PATTERNS[k].matches }
  IN  IF /\ Len(result.consoleErrors) > 0
         /\ \E k \in 1..Len(result.consoleErrors) : IncludesError(result.consoleErrors[k])
      THEN [category |-> "logic",
            rootCause |-> <<"JavaScript error: ", FindJsError(result.consoleErrors)>>]
      ELSE IF Len(result.networkErrors) > 0
      THEN [category |-> "network",
            rootCause |-> <<"Network failure: ", result.networkErrors[1]>>]
      ELSE IF matching # {}
      THEN [category |-> FAILURE_PATTERNS[FirstMatch(matching)].category,
            rootCause |-> <<FAILURE_PATTERNS[FirstMatch(matching)].message>>]
      ELSE [category |-> "selector",
            rootCause |-> << IF error # "" THEN error
                             ELSE "Unknown error - step failed without specific error message" >>]

\* the inner loop of identifyAffectedFiles: push the files that exist and
\* are not in the list yet
RECURSIVE PushExisting(_, _, _)
PushExisting(files, mappedFiles, existing) ==
  IF mappedFiles = <<>> THEN files
  ELSE LET file == Head(mappedFiles)
       IN  PushExisting(IF file \in existing /\ ~SeqContains(files, file)
                        THEN Append(files, file) ELSE files,
                        Tail(mappedFiles), existing)

\* the outer loop of identifyAffectedFiles over FILE_MAPPINGS[k..]
RECURSIVE MatchMappings(_, _, _, _)
MatchMappings(files, k, searchTerms, existing) ==
  IF k > Len(FILE_MAPPINGS) THEN files
  ELSE MatchMappings(IF searchTerms \in FILE_MAPPINGS[k].matches
                     THEN PushExisting(files, FILE_MAPPINGS[k].files, existing)
                     ELSE files,
                     k + 1, searchTerms, existing)

identifyAffectedFiles(failedStep, existing) ==
  LET mapped == MatchMappings(<<>>, 1, failedStep.target, existing)
      files  == IF Len(mapped) = 0
                THEN PushExisting(<<>>, <<"src/App.tsx", "src/pages/HomePage.tsx">>, existing)
                ELSE mapped
  IN  SubSeq(files, 1, IF Len(files) < 5 THEN Len(files) ELSE 5)

\* determineConfidence without the test that files were identified
determineConfidenceAnyFiles(category, affectedFiles, failedStep) ==
  IF /\ Len(affectedFiles) <= 2
     /\ \/ (category = "selector" /\ failedStep.target # "")
        \/ (category = "logic" /\ IncludesError(failedStep.error))
  THEN "high"
  ELSE IF Len(affectedFiles) > 0 \/ failedStep.error # "" THEN "medium"
  ELSE "low"

\* determineConfidence
determineConfidence(category, affectedFiles, failedStep) ==
  IF /\ Len(affectedFiles) > 0 /\ Len(affectedFiles) <= 2
     /\ \/ (category = "selector" /\ failedStep.target # "")
        \/ (category = "logic" /\ IncludesError(failedStep.error))
  THEN "high"
  ELSE IF Len(affectedFiles) > 0 \/ failedStep.error # "" THEN "medium"
  ELSE "low"

NoAnalysis ==
  [outcome |-> "none", failedStepId |-> "", category |-> "", rootCause |-> <<>>,
   affectedFiles |-> <<>>, confidence |-> ""]

ThrownAnalysis == [NoAnalysis EXCEPT !.outcome = "thrown"]

\* runAnalyzer: throws when no step failed, and (a TypeError of
\* target.toLowerCase()) when the failed step has no target
runAnalyzer(input) ==
  IF ~HasFailedStep(input.testResult) THEN ThrownAnalysis
  ELSE LET failedStep == FailedStep(input.testResult)
       IN  IF failedStep.target = Undefined THEN ThrownAnalysis
           ELSE LET analyzed == analyzeError(failedStep, input.testResult)
                    category == analyzed.category
                    affectedFiles == identifyAffectedFiles(failedStep, input.projectFiles)
                IN  [outcome |-> "analysis",
                     failedStepId |-> failedStep.id,
                     category |-> category,
                     rootCause |-> analyzed.rootCause,
                     affectedFiles |-> affectedFiles,
                     confidence |-> determineConfidence(category, affectedFiles, failedStep)]

\* the TestResult files analyzer.ts main is run on
AnalyzedSteps ==
  LET passedStep == [id |-> "a", target |-> "Save", status |-> "passed", error |-> ""]
      failedSteps == { [id |-> i, target |-> t, status |-> "failed", error |-> e] :
                         i \in {"b"}, t \in StepTargets, e \in StepErrors }
  IN  { <<>>, <<passedStep>> } \cup { <<f>> : f \in failedSteps }
        \cup { <<passedStep, f>> : f \in failedSteps }

AnalyzerInputs ==
  { [testResult |-> [steps |-> s, consoleErrors |-> c, networkErrors |-> n],
     projectFiles |-> p] :
      s \in AnalyzedSteps,
      c \in { <<>> } \cup { <<x>> : x \in ConsoleTexts }
              \cup { <<x, y>> : x \in ConsoleTexts, y \in ConsoleTexts },
      n \in { <<>> } \cup { <<x>> : x \in NetworkTexts },
      p \in ProjectFiles }

NoAnalyzerInput ==
  [testResult |-> [steps |-> <<>>, consoleErrors |-> <<>>, networkErrors |-> <<>>],
   projectFiles |-> {}]

\* analyzer.ts main: read the test result file and run the analyzer on it
AnalyzerMain ==
  /\ entry = "analyzer"
  /\ pc = "analyzer.start"
  /\ analysis' = runAnalyzer(analyzerInput)
  /\ pc' = IF runAnalyzer(analyzerInput).outcome = "thrown"
           THEN "analyzer.thrown" ELSE "analyzer.returned"
  /\ UNCHANGED <<inputVars, workoutVars, report, lookup, loadVars, orchVars, runVars, exitCode, execVars>>

(* ------------------- element lookup of the two drivers ----------------- *)
\* Selectors are sequences of characters; the literal pieces of a template
\* string are kept as one element each.
startsWith(s, prefix) ==
  Len(s) >= Len(prefix) /\ SubSeq(s, 1, Len(prefix)) = prefix

slice(s, n) == SubSeq(s, n + 1, Len(s))

includes(s, sub) ==
  \E i \in 1..Len(s) : i + Len(sub) - 1 <= Len(s) /\ SubSeq(s, i, i + Len(sub) - 1) = sub

RECURSIVE trim(_)
trim(s) ==
  IF s = <<>> THEN s
  ELSE IF Head(s) = " " THEN trim(Tail(s))
  ELSE IF s[Len(s)] = " " THEN trim(SubSeq(s, 1, Len(s) - 1))
  ELSE s

\* target.split(', ')
RECURSIVE split(_)
split(s) ==
  IF ~includes(s, <<",", " ">>) THEN <<s>>
  ELSE LET i == CHOOSE i \in 1..Len(s) :
                  /\ i + 1 <= Len(s) /\ SubSeq(s, i, i + 1) = <<",", " ">>
                  /\ \A j \in 1..(i - 1) : SubSeq(s, j, j + 1) # <<",", " ">>
       IN  <<SubSeq(s, 1, i - 1)>> \o split(SubSeq(s, i + 2, Len(s)))

\* the raw selectors that are explored: @ok, #ok, xpath://a, OK, .c,
\* "@a, #b", "li >> nth=0" and input[first]
Targets ==
  { <<"@", "o", "k">>,
    <<"#", "o", "k">>,
    <<"x", "p", "a", "t", "h", ":", "/", "/", "a">>,
    <<"O", "K">>,
    <<".", "c">>,
    <<"@", "a", ",", " ", "#", "b">>,
    <<"l", "i", " ", ">", ">", " ", "n", "t", "h", "=", "0">>,
    <<"i", "n", "p", "u", "t", "[", "f", "i", "r", "s", "t", "]">> }

\* e2e/src/parser.ts resolveElementSelector, used by TestExecutor.findElement
resolveElementSelector(element) ==
  IF startsWith(element, <<"@">>)
  THEN [strategy |-> "accessibility id", selector |-> slice(element, 1)]
  ELSE IF startsWith(element, <<"#">>)
  THEN [strategy |-> "id", selector |-> slice(element, 1)]
  ELSE IF startsWith(element, <<"x", "p", "a", "t", "h", ":">>)
  THEN [strategy |-> "xpath", selector |-> slice(element, 6)]
  ELSE [strategy |-> "xpath",
        selector |-> <<"//*[contains(@text, \"">> \o element
                     \o <<"\") or contains(@label, \"">> \o element
                     \o <<"\") or contains(@value, \"">> \o element
                     \o <<"\") or contains(@name, \"">> \o element \o <<"\")]">>]

\* expandSelector lines 509-519: the text-based selectors of a plain target
TextSelectors(t) ==
  << <<"text=\"">> \o t \o <<"\"">>,
     <<"text=">> \o t,
     <<"button:has-text(\"">> \o t \o <<"\")">>,
     <<"a:has-text(\"">> \o t \o <<"\")">>,
     <<"*:has-text(\"">> \o t \o <<"\")">> >>

\* expandSelector lines 495-502
isCssSelector(t) ==
  \/ startsWith(t, <<".">>)
  \/ startsWith(t, <<"#">>)
  \/ startsWith(t, <<"[">>)
  \/ startsWith(t, <<"b", "u", "t", "t", "o", "n", "[">>)
  \/ startsWith(t, <<"i", "n", "p", "u", "t", "[">>)
  \/ startsWith(t, <<"a", "[">>)
  \/ includes(t, <<">", ">">>)

\* PlaywrightAdapter.expandSelector, used by smartClick, smartFill and
\* isElementVisible
RECURSIVE expandSelector(_)
RECURSIVE expandParts(_)
expandParts(parts) ==
  IF parts = <<>> THEN <<>>
  ELSE expandSelector(trim(Head(parts))) \o expandParts(Tail(parts))

expandSelector(t) ==
  IF t = <<"i", "n", "p", "u", "t", "[", "f", "i", "r", "s", "t", "]">>
  THEN << <<"input >> nth=0">> >>
  ELSE IF includes(t, <<",", " ">>)
  THEN expandParts(split(t))
  ELSE IF includes(t, <<" ", ">", ">", " ", "n", "t", "h", "=">>)
  THEN <<t>>
  ELSE IF isCssSelector(t)
  THEN <<t>>
  ELSE LET selectors == TextSelectors(t)
       IN  IF SeqContains(selectors, t) THEN selectors ELSE Append(selectors, t)

NoLookup ==
  [resolved |-> FALSE, strategy |-> "", selector |-> <<>>,
   expanded |-> FALSE, selectors |-> <<>>]

\* TestExecutor.findElement: resolve the selector for driver.$
FindElement ==
  /\ entry = "selector"
  /\ ~lookup.resolved
  /\ lookup' = [lookup EXCEPT !.resolved = TRUE,
                              !.strategy = resolveElementSelector(target).strategy,
                              !.selector = resolveElementSelector(target).selector]
  /\ UNCHANGED <<inputVars, workoutVars, report, analysis, pc, loadVars, orchVars, runVars, exitCode, execVars>>

\* PlaywrightAdapter.smartClick: the locators that are tried in turn
SmartClick ==
  /\ entry = "selector"
  /\ ~lookup.expanded
  /\ lookup' = [lookup EXCEPT !.expanded = TRUE, !.selectors = expandSelector(target)]
  /\ UNCHANGED <<inputVars, workoutVars, report, analysis, pc, loadVars, orchVars, runVars, exitCode, execVars>>

(* ------------------- generateFinalReport on its own -------------------- *)
\* the TestResults an OrchestratorState handed to generateFinalReport holds
ReportedResults ==
  { [scenarioFile |-> f, status |-> "passed",
     steps |-> <<ExecutedStepResult("a", "passed")>>] : f \in 1..MaxFiles }
  \cup
  { [scenarioFile |-> f, status |-> "failed",
     steps |-> <<ExecutedStepResult("a", "failed")>>] : f \in 1..MaxFiles }
  \cup
  { createFailedResult(f) : f \in 1..MaxFiles }

ReportedStates ==
  { [InitialState EXCEPT !.results = rs, !.status = "running"] :
      rs \in UNION { [1..n -> ReportedResults] : n \in 0..MaxResults } }

GenerateReport ==
  /\ entry = "report"
  /\ pc = "report.start"
  /\ report' = generateFinalReport(state)
  /\ pc' = "report.returned"
  /\ UNCHANGED <<inputVars, workoutVars, toolVars, loadVars, orchVars, runVars, exitCode, execVars>>

(* ------------------- scenario parser: resolveDependencies -------------- *)
\* the scenario ids that occur in the explored maps and `requires` lists
ScenarioIds == {"a", "b", "c"}

\* the `requires` lists of a scenario that are explored
RequiresLists ==
  { <<>>, <<"a">>, <<"b">>, <<"c">>, <<"b", "c">>, <<"c", "b">>, <<"b", "b">>,
    <<"c", "a">> }

\* the Map<string, TestScenario> handed to resolveDependencies: every id is
\* either in the map with its `requires` list (undefined reads as []) or not
DependencyMaps ==
  { [id \in ScenarioIds |->
       [present |-> id \in ids, requires |-> IF id \in ids THEN r[id] ELSE <<>>]] :
      ids \in { {"a", "b", "c"}, {"a", "b"} }, r \in [ScenarioIds -> RequiresLists] }

\* the locals of resolveDependencies: visited, order and the call stack of
\* visit (one frame per running call: its id and the position in its for-loop)
NoDeps ==
  [scenarios |-> [id \in ScenarioIds |-> [present |-> FALSE, requires |-> <<>>]],
   scenarioId |-> "a", visited |-> {}, order |-> <<>>, stack |-> <<>>,
   thrown |-> FALSE]

\* visit(id) up to its for-loop: return when visited, else mark visited and
\* throw when the id is not in the map
visit(d, id) ==
  IF id \in d.visited THEN d
  ELSE IF ~d.scenarios[id].present
  THEN [d EXCEPT !.visited = @ \cup {id}, !.thrown = TRUE]
  ELSE [d EXCEPT !.visited = @ \cup {id},
                 !.stack = Append(@, [id |-> id, next |-> 1])]

\* resolveDependencies: visit(scenarioId)
ResolveDependencies ==
  /\ entry = "deps"
  /\ pc = "deps.start"
  /\ deps' = visit(deps, deps.scenarioId)
  /\ pc' = IF deps'.thrown THEN "deps.thrown" ELSE "deps.visit"
  /\ UNCHANGED <<inputVars, appVars, report, toolVars, loadVars, orchVars, runVars, exitCode,
                 execVars>>

\* one turn of `for (const dep of scenario.requires || [])` in the running
\* call of visit
VisitDep ==
  /\ entry = "deps"
  /\ pc = "deps.visit"
  /\ LET top == deps.stack[Len(deps.stack)]
         requires == deps.scenarios[top.id].requires
     IN  /\ top.next <= Len(requires)
         /\ deps' = visit([deps EXCEPT !.stack[Len(deps.stack)].next = @ + 1],
                          requires[top.next])
  /\ pc' = IF deps'.thrown THEN "deps.thrown" ELSE "deps.visit"
  /\ UNCHANGED <<inputVars, appVars, report, toolVars, loadVars, orchVars, runVars, exitCode,
                 execVars>>

\* the end of the for-loop: order.push(id) and the return of this call of
\* visit; the return of the outermost call returns `order`
PushOrder ==
  /\ entry = "deps"
  /\ pc = "deps.visit"
  /\ LET top == deps.stack[Len(deps.stack)]
     IN  /\ top.next > Len(deps.scenarios[top.id].requires)
         /\ deps' = [deps EXCEPT !.order = Append(@, top.id),
                                 !.stack = SubSeq(@, 1, Len(@) - 1)]
  /\ pc' = IF Len(deps.stack) = 1 THEN "deps.returned" ELSE "deps.visit"
  /\ UNCHANGED <<inputVars, appVars, report, toolVars, loadVars, orchVars, runVars, exitCode,
                 execVars>>

(* ------------------- gym tracker web app: the workout page ------------- *)
\* The database tables (the id of a row is its position: AUTOINCREMENT), the
\* React Query cache, the zustand store, the mounted WorkoutPage and the
\* async calls in flight; one day template is explored.

\* the exercises of the day template (getTemplateWithExercises)
TemplateExercises == <<"Squat">>

NoSession == [id |-> 0, exercises |-> <<>>]

EmptyDb == [sessions |-> <<>>, exercises |-> <<>>, sets |-> <<>>]

Max(S) == CHOOSE x \in S : \A y \in S : y <= x

\* getSetsByExerciseId: SELECT ... WHERE exercise_id = ? ORDER BY set_number
\* (rows with equal numbers in the order of their ids)
RECURSIVE OrderBySetNumber(_, _)
OrderBySetNumber(d, ids) ==
  IF ids = {} THEN <<>>
  ELSE LET first == CHOOSE i \in ids : \A j \in ids :
                      \/ d.sets[i].setNumber < d.sets[j].setNumber
                      \/ (d.sets[i].setNumber = d.sets[j].setNumber /\ i <= j)
       IN  <<[id |-> first, setNumber |-> d.sets[first].setNumber]>>
             \o OrderBySetNumber(d, ids \ {first})

getSetsByExerciseId(d, exerciseId) ==
  OrderBySetNumber(d, { i \in 1..Len(d.sets) :
                          d.sets[i].exerciseId = exerciseId /\ ~d.sets[i].deleted })

\* getExercisesBySessionId: the exercises of the session, each with its sets
getExercisesBySessionId(d, sessionId) ==
  LET ids == SelectSeq([i \in 1..Len(d.exercises) |-> i],
                       LAMBDA i : d.exercises[i].sessionId = sessionId)
  IN  [k \in 1..Len(ids) |->
         [id |-> ids[k], name |-> d.exercises[ids[k]].name,
          sets |-> getSetsByExerciseId(d, ids[k])]]

\* getSessionWithExercises: null (NoSession) when the id matches no row
getSessionWithExercises(d, id) ==
  IF id \in 1..Len(d.sessions)
  THEN [id |-> id, exercises |-> getExercisesBySessionId(d, id)]
  ELSE NoSession

\* getActiveSession: the latest started session with completed_at IS NULL
\* (0: null)
getActiveSession(d) ==
  LET open == { i \in 1..Len(d.sessions) : d.sessions[i].completedAt = 0 }
  IN  IF open = {} THEN 0 ELSE Max(open)

\* getLastCompletedSession: the session with the latest completed_at
getLastCompletedSession(d) ==
  LET done == { i \in 1..Len(d.sessions) : d.sessions[i].completedAt # 0 }
  IN  IF done = {} THEN NoSession
      ELSE getSessionWithExercises(d,
             CHOOSE i \in done : \A j \in done :
               d.sessions[j].completedAt <= d.sessions[i].completedAt)

\* getNextSetNumber: MAX(set_number) + 1, 1 without sets
getNextSetNumber(d, exerciseId) ==
  LET sets == getSetsByExerciseId(d, exerciseId)
  IN  IF sets = <<>> THEN 1 ELSE Max({ sets[k].setNumber : k \in 1..Len(sets) }) + 1

\* createSession, createSessionExercise, createSet, deleteSet, completeSession
createSession(d) == [d EXCEPT !.sessions = Append(@, [completedAt |-> 0])]

createSessionExercise(d, sessionId, name) ==
  [d EXCEPT !.exercises = Append(@, [sessionId |-> sessionId, name |-> name])]

createSet(d, exerciseId, setNumber) ==
  [d EXCEPT !.sets = Append(@, [exerciseId |-> exerciseId, setNumber |-> setNumber,
                                deleted |-> FALSE])]

deleteSet(d, id) == [d EXCEPT !.sets[id].deleted = TRUE]

completeSession(d, id) ==
  [d EXCEPT !.sessions[id].completedAt =
              Max({ d.sessions[i].completedAt : i \in 1..Len(d.sessions) }) + 1]

\* startWorkout lines 84-100: copy the exercises of the last completed
\* session and their sets
RECURSIVE CopySets(_, _, _)
CopySets(d, exerciseId, sets) ==
  IF sets = <<>> THEN d
  ELSE CopySets(createSet(d, exerciseId, Head(sets).setNumber), exerciseId, Tail(sets))

RECURSIVE CopyExercises(_, _, _)
CopyExercises(d, sessionId, exercises) ==
  IF exercises = <<>> THEN d
  ELSE LET withExercise == createSessionExercise(d, sessionId, Head(exercises).name)
       IN  CopyExercises(CopySets(withExercise, Len(withExercise.exercises),
                                  Head(exercises).sets),
                         sessionId, Tail(exercises))

\* startWorkout lines 103-109: the exercises of the template, without sets
RECURSIVE CreateFromTemplate(_, _, _)
CreateFromTemplate(d, sessionId, names) ==
  IF names = <<>> THEN d
  ELSE CreateFromTemplate(createSessionExercise(d, sessionId, Head(names)),
                          sessionId, Tail(names))

\* startWorkout line 82: lastCompleted && lastCompleted.exercises.length > 0
UseHistory(lastCompleted) ==
  lastCompleted # NoSession /\ Len(lastCompleted.exercises) > 0

\* a query of the React Query cache: `data` is undefined until hasData
NoQuery(none) == [hasData |-> FALSE, data |-> none, invalidated |-> FALSE,
                  fetching |-> FALSE]

NoQueries == [active |-> NoQuery(0), lastCompleted |-> NoQuery(NoSession),
              detailFetching |-> FALSE]

\* useQuery on mount: fetch when there is no data or the data is invalidated
\* (the page is opened again within staleTime, one minute)
ObserveQuery(q) ==
  [q EXCEPT !.fetching = @ \/ ~q.hasData \/ q.invalidated]

\* queryClient.invalidateQueries: queries with a mounted observer refetch
InvalidateQuery(q, observed) ==
  [q EXCEPT !.invalidated = q.hasData, !.fetching = @ \/ observed]

ResolveQuery(q, data) ==
  [q EXCEPT !.hasData = TRUE, !.data = data, !.invalidated = FALSE, !.fetching = FALSE]

\* the store's removeSetLocally, addSetLocally
removeSetLocally(session, exerciseId, setId) ==
  [session EXCEPT !.exercises =
     [k \in 1..Len(session.exercises) |->
        LET e == session.exercises[k]
        IN  IF e.id = exerciseId
            THEN [e EXCEPT !.sets = SelectSeq(e.sets, LAMBDA s : s.id # setId)]
            ELSE e]]

addSetLocally(session, exerciseId, newSet) ==
  IF session = NoSession THEN session
  ELSE [session EXCEPT !.exercises =
          [k \in 1..Len(session.exercises) |->
             LET e == session.exercises[k]
             IN  IF e.id = exerciseId
                 THEN [e EXCEPT !.sets = Append(e.sets, newSet)]
                 ELSE e]]

NoTask == [op |-> "", pc |-> "", lastCompleted |-> NoSession, refetchId |-> 0,
           sessionId |-> 0, exerciseId |-> 0, setId |-> 0, setNumber |-> 0]

RemoveAt(seq, k) == SubSeq(seq, 1, k - 1) \o SubSeq(seq, k + 1, Len(seq))

TasksOf(op) == { k \in 1..Len(tasks) : tasks[k].op = op }

\* WorkoutPage mounts: its queries are observed and the mount effect calls
\* startWorkout once, with the activeSession and lastCompleted (and the
\* refetch of useSession(currentSession?.id)) of this first render; the page
\* is opened when no earlier startWorkout is still running
OpenWorkoutPage ==
  /\ entry = "workout"
  /\ ~mounted
  /\ TasksOf("startWorkout") = {}
  /\ Len(tasks) < MaxTasks
  /\ Len(db.sessions) + Cardinality({ k \in TasksOf("startWorkout") : tasks[k].pc = "create" })
       < MaxSessions
  /\ mounted' = TRUE
  /\ queries' = [queries EXCEPT !.active = ObserveQuery(@),
                                !.lastCompleted = ObserveQuery(@)]
  /\ tasks' = Append(tasks,
       [NoTask EXCEPT !.op = "startWorkout",
                      !.pc = IF queries.active.hasData /\ queries.active.data # 0
                             THEN "resume" ELSE "create",
                      !.lastCompleted = queries.lastCompleted.data,
                      !.refetchId = store.id])
  /\ UNCHANGED <<db, store>>
  /\ UNCHANGED <<inputVars, deps, pc, report, toolVars, loadVars, orchVars, runVars, exitCode,
                 execVars>>

\* the user leaves the page (Leave Workout, or back) when no addSet or
\* removeSet call is running: the component unmounts
LeavePage ==
  /\ entry = "workout"
  /\ mounted
  /\ TasksOf("addSet") \cup TasksOf("removeSet") = {}
  /\ mounted' = FALSE
  /\ UNCHANGED <<db, queries, store, tasks>>
  /\ UNCHANGED <<inputVars, deps, pc, report, toolVars, loadVars, orchVars, runVars, exitCode,
                 execVars>>

\* the app is closed when no call is running and started again: the
\* database is kept, the query cache and the store are gone
RestartApp ==
  /\ entry = "workout"
  /\ tasks = <<>>
  /\ mounted \/ queries # NoQueries \/ store # NoSession
  /\ mounted' = FALSE
  /\ queries' = NoQueries
  /\ store' = NoSession
  /\ tasks' = <<>>
  /\ UNCHANGED db
  /\ UNCHANGED <<inputVars, deps, pc, report, toolVars, loadVars, orchVars, runVars, exitCode,
                 execVars>>

\* the fetch of useActiveSession resolves
ResolveActiveSession ==
  /\ entry = "workout"
  /\ queries.active.fetching
  /\ queries' = [queries EXCEPT !.active = ResolveQuery(@, getActiveSession(db))]
  /\ UNCHANGED <<db, store, tasks, mounted>>
  /\ UNCHANGED <<inputVars, deps, pc, report, toolVars, loadVars, orchVars, runVars, exitCode,
                 execVars>>

\* the fetch of useLastCompletedSession resolves
ResolveLastCompleted ==
  /\ entry = "workout"
  /\ queries.lastCompleted.fetching
  /\ queries' = [queries EXCEPT
                   !.lastCompleted = ResolveQuery(@, getLastCompletedSession(db))]
  /\ UNCHANGED <<db, store, tasks, mounted>>
  /\ UNCHANGED <<inputVars, deps, pc, report, toolVars, loadVars, orchVars, runVars, exitCode,
                 execVars>>

\* startWorkout lines 66-73: resume, with the session refetchSession returns
ResumeSession ==
  /\ entry = "workout"
  /\ \E k \in TasksOf("startWorkout") :
       /\ tasks[k].pc = "resume"
       /\ LET session == getSessionWithExercises(db, tasks[k].refetchId)
          IN  store' = IF session # NoSession THEN session ELSE store
       /\ tasks' = RemoveAt(tasks, k)
  /\ queries' = [queries EXCEPT !.detailFetching = FALSE]
  /\ UNCHANGED <<db, mounted>>
  /\ UNCHANGED <<inputVars, deps, pc, report, toolVars, loadVars, orchVars, runVars, exitCode,
                 execVars>>

\* startWorkout line 76: createSessionMutation, which invalidates the active
\* session query
CreateSession ==
  /\ entry = "workout"
  /\ \E k \in TasksOf("startWorkout") :
       /\ tasks[k].pc = "create"
       /\ db' = createSession(db)
       /\ tasks' = [tasks EXCEPT ![k].pc = "populate", ![k].sessionId = Len(db'.sessions)]
  /\ queries' = [queries EXCEPT !.active = InvalidateQuery(@, mounted)]
  /\ UNCHANGED <<store, mounted>>
  /\ UNCHANGED <<inputVars, deps, pc, report, toolVars, loadVars, orchVars, runVars, exitCode,
                 execVars>>

\* startWorkout lines 79-116: populate the new session from the last
\* completed session or from the template, and put it into the store
PopulateSession ==
  /\ entry = "workout"
  /\ \E k \in TasksOf("startWorkout") :
       /\ tasks[k].pc = "populate"
       /\ db' = IF UseHistory(tasks[k].lastCompleted)
                THEN CopyExercises(db, tasks[k].sessionId, tasks[k].lastCompleted.exercises)
                ELSE CreateFromTemplate(db, tasks[k].sessionId, TemplateExercises)
       /\ store' = getSessionWithExercises(db', tasks[k].sessionId)
       /\ tasks' = RemoveAt(tasks, k)
  /\ queries' = [queries EXCEPT !.detailFetching = FALSE]
  /\ UNCHANGED mounted
  /\ UNCHANGED <<inputVars, deps, pc, report, toolVars, loadVars, orchVars, runVars, exitCode,
                 execVars>>

\* handleFinish, when no addSet or removeSet call is running: finishWorkout
\* (completeSession, the invalidations of its onSuccess, clearSession) and
\* navigate('/')
HandleFinish ==
  /\ entry = "workout"
  /\ mounted
  /\ store # NoSession
  /\ TasksOf("addSet") \cup TasksOf("removeSet") = {}
  /\ \A i \in 1..Len(db.sessions) : db.sessions[i].completedAt < MaxSessions
  /\ db' = completeSession(db, store.id)
  /\ queries' = [queries EXCEPT !.active = InvalidateQuery(@, TRUE),
                                !.lastCompleted = InvalidateQuery(@, TRUE),
                                !.detailFetching = FALSE]
  /\ store' = NoSession
  /\ mounted' = FALSE
  /\ UNCHANGED tasks
  /\ UNCHANGED <<inputVars, deps, pc, report, toolVars, loadVars, orchVars, runVars, exitCode,
                 execVars>>

\* addSet lines 201-203: the call and its getNextSetNumber query
AddSet ==
  /\ entry = "workout"
  /\ mounted
  /\ store # NoSession
  /\ Len(tasks) < MaxTasks
  /\ Len(db.sets) + Cardinality(TasksOf("addSet")) < MaxSets
  /\ \E e \in 1..Len(store.exercises) :
       tasks' = Append(tasks,
         [NoTask EXCEPT !.op = "addSet", !.pc = "createSet",
                        !.sessionId = store.id,
                        !.exerciseId = store.exercises[e].id,
                        !.setNumber = getNextSetNumber(db, store.exercises[e].id)])
  /\ UNCHANGED <<db, queries, store, mounted>>
  /\ UNCHANGED <<inputVars, deps, pc, report, toolVars, loadVars, orchVars, runVars, exitCode,
                 execVars>>

\* addSet lines 204-214: createSetMutation (createSet and the invalidation of
\* the session query) and addSetLocally
CreateSet ==
  /\ entry = "workout"
  /\ \E k \in TasksOf("addSet") :
       /\ db' = createSet(db, tasks[k].exerciseId, tasks[k].setNumber)
       /\ store' = addSetLocally(store, tasks[k].exerciseId,
                                 [id |-> Len(db'.sets), setNumber |-> tasks[k].setNumber])
       /\ queries' = [queries EXCEPT
                        !.detailFetching = @ \/ (mounted /\ store.id = tasks[k].sessionId)]
       /\ tasks' = RemoveAt(tasks, k)
  /\ UNCHANGED mounted
  /\ UNCHANGED <<inputVars, deps, pc, report, toolVars, loadVars, orchVars, runVars, exitCode,
                 execVars>>

\* removeSet lines 248-250: the call and removeSetLocally
RemoveSet ==
  /\ entry = "workout"
  /\ mounted
  /\ store # NoSession
  /\ Len(tasks) < MaxTasks
  /\ \E e \in 1..Len(store.exercises) : \E s \in 1..Len(store.exercises[e].sets) :
       /\ store' = removeSetLocally(store, store.exercises[e].id, store.exercises[e].sets[s].id)
       /\ tasks' = Append(tasks,
            [NoTask EXCEPT !.op = "removeSet", !.pc = "deleteSet",
                           !.sessionId = store.id,
                           !.exerciseId = store.exercises[e].id,
                           !.setId = store.exercises[e].sets[s].id])
  /\ UNCHANGED <<db, queries, mounted>>
  /\ UNCHANGED <<inputVars, deps, pc, report, toolVars, loadVars, orchVars, runVars, exitCode,
                 execVars>>

\* removeSet lines 252-255: deleteSetMutation (deleteSet and the invalidation
\* of the session query)
DeleteSet ==
  /\ entry = "workout"
  /\ \E k \in TasksOf("removeSet") :
       /\ db' = deleteSet(db, tasks[k].setId)
       /\ queries' = [queries EXCEPT
                        !.detailFetching = @ \/ (mounted /\ store.id = tasks[k].sessionId)]
       /\ tasks' = RemoveAt(tasks, k)
  /\ UNCHANGED <<store, mounted>>
  /\ UNCHANGED <<inputVars, deps, pc, report, toolVars, loadVars, orchVars, runVars, exitCode,
                 execVars>>

\* the refetch of useSession(currentSession.id) resolves and the sync effect
\* of useWorkout (lines 53-57) puts its data into the store
SyncSession ==
  /\ entry = "workout"
  /\ queries.detailFetching
  /\ queries' = [queries EXCEPT !.detailFetching = FALSE]
  /\ store' = IF mounted /\ store # NoSession
              THEN getSessionWithExercises(db, store.id) ELSE store
  /\ UNCHANGED <<db, tasks, mounted>>
  /\ UNCHANGED <<inputVars, deps, pc, report, toolVars, loadVars, orchVars, runVars, exitCode,
                 execVars>>

Init ==
  /\ entry \in Entries
  /\ IF entry = "cli" THEN args \in CliArgs ELSE args = NoArgs
  /\ IF entry \in OrchestratorEntries \cup {"parser"}
     THEN dir \in (IF args = NoArgs THEN Dirs ELSE TaggedDirs)
     ELSE dir = <<>>
  /\ IF entry \in OrchestratorEntries THEN config \in Configs
                                      ELSE config = DefaultConfig
  /\ IF entry = "executor"
     THEN platform \in Platforms /\ execScenario \in TestScenarios
     ELSE platform = "ios" /\ execScenario = <<>>
  /\ IF entry = "analyzer" THEN analyzerInput \in AnalyzerInputs
                            ELSE analyzerInput = NoAnalyzerInput
  /\ analysis = NoAnalysis
  /\ IF entry = "selector" THEN target \in Targets ELSE target = <<>>
  /\ lookup = NoLookup
  /\ IF entry = "deps"
     THEN deps \in { [NoDeps EXCEPT !.scenarios = m, !.scenarioId = id] :
                       m \in DependencyMaps, id \in {"a", "c"} }
     ELSE deps = NoDeps
  /\ db = EmptyDb
  /\ queries = NoQueries
  /\ store = NoSession
  /\ tasks = <<>>
  /\ mounted = FALSE
  /\ pc = (CASE entry = "parser" -> "parser.load"
             [] entry = "executor" -> "exec.idle"
             [] entry = "analyzer" -> "analyzer.start"
             [] entry = "selector" -> "selector.lookup"
             [] entry = "report" -> "report.start"
             [] entry = "deps" -> "deps.start"
             [] entry = "workout" -> "workout.page"
             [] OTHER -> "load")
  /\ exec = InitialExec
  /\ execResult = NoExecResult
  /\ loadIdx = 1
  /\ scenarioMap = <<>>
  /\ IF entry = "report" THEN state \in ReportedStates ELSE state = InitialState
  /\ report = NoReport
  /\ scenarioIdx = 1
  /\ iteration = 0
  /\ passed = FALSE
  /\ codingAgentPrompts = <<>>
  /\ run = InitialRun
  /\ driverCalls = <<>>
  /\ testResult = NoResult
  /\ output = "none"
  /\ exitCode = -1

Next ==
  \/ LoadScenarioFile
  \/ ScenariosLoaded
  \/ ForScenario
  \/ WhileHead
  \/ ParseAndValidate
  \/ AdapterInitialize
  \/ Navigate
  \/ SkipStep
  \/ ExecuteStep
  \/ ReturnResult
  \/ RecordResult
  \/ RunAnalyzer
  \/ RunCodingAgent
  \/ AfterWhile
  \/ Finalize
  \/ MainExit
  \/ ParserLoadFile
  \/ ParserLoaded
  \/ ExecInitialize
  \/ ExecTeardown
  \/ ExecRunScenario
  \/ ExecSkipStep
  \/ ExecExecuteStep
  \/ ExecReturn
  \/ AnalyzerMain
  \/ FindElement
  \/ SmartClick
  \/ GenerateReport
  \/ ResolveDependencies
  \/ VisitDep
  \/ PushOrder
  \/ OpenWorkoutPage
  \/ LeavePage
  \/ RestartApp
  \/ ResolveActiveSession
  \/ ResolveLastCompleted
  \/ ResumeSession
  \/ CreateSession
  \/ PopulateSession
  \/ HandleFinish
  \/ AddSet
  \/ CreateSet
  \/ RemoveSet
  \/ DeleteSet
  \/ SyncSession

Spec == Init /\ [][Next]_vars

TypeOK ==
  /\ pc \in {"load", "for", "while", "runner", "initialize", "navigate", "steps",
             "record", "analyze", "fix", "afterWhile", "final", "returned", "thrown",
             "parser.load", "parser.returned", "parser.thrown",
             "exec.idle", "exec.steps", "exec.returned", "exec.thrown",
             "analyzer.start", "analyzer.returned", "analyzer.thrown",
             "selector.lookup", "report.start", "report.returned",
             "deps.start", "deps.visit", "deps.returned", "deps.thrown",
             "workout.page"}
  /\ exitCode \in {-1, 0, 1}
  /\ state.status \in {"initializing", "running", "passed", "failed", "max_retries"}

(* ======================= properties ==================================== *)
Orchestrating == entry \in OrchestratorEntries

\* the positions in state.results of the run attempts of a scenario file
AttemptsOf(file) ==
  { k \in 1..Len(state.results) : state.results[k].scenarioFile = file }

NumAttempts(file) == Cardinality(AttemptsOf(file))

LastAttempt(file) ==
  state.results[CHOOSE k \in AttemptsOf(file) : \A j \in AttemptsOf(file) : j <= k]

\* the scenario files whose for-loop body has been entered
ProcessedFiles ==
  IF state.status = "initializing" THEN {}
  ELSE { scenarioMap[j].file : j \in { i \in 1..Len(scenarioMap) : i <= scenarioIdx } }

EndedPassed(file) ==
  NumAttempts(file) > 0 /\ LastAttempt(file).status = "passed"

\* a scenario stopped at iteration == maxIterations without a passing attempt
Exhausted(file) ==
  /\ config.maxIterations >= 1
  /\ NumAttempts(file) = config.maxIterations
  /\ \A k \in AttemptsOf(file) : state.results[k].status # "passed"

RunEnded == Orchestrating /\ pc \in {"returned", "thrown"}

\* a TestResult built by createFailedResult
Synthetic(result) == result.status = "failed" /\ result.steps = <<>>

\* C1: for every scenario file the number of TestResults appended to
\* state.results is at most config.orchestrator.maxIterations, and
\* state.iteration never exceeds maxIterations.
C1_AttemptsBounded ==
  Orchestrating =>
    /\ \A file \in 1..Len(dir) : NumAttempts(file) <= config.maxIterations
    /\ state.iteration <= config.maxIterations

\* C1 witness: a run returned in which a scenario used all of its (at least
\* two) iterations
C1_Witness ==
  /\ Orchestrating
  /\ pc = "returned"
  /\ config.maxIterations >= 2
  /\ \E file \in 1..Len(dir) : NumAttempts(file) = config.maxIterations

\* C2: once a scenario was stopped at iteration == maxIterations without a
\* pass, the run of runOrchestrator ends by returning with state.status ==
\* max_retries, whatever happens to the scenarios processed after it.
C2_ExhaustedReturnsMaxRetries ==
  (RunEnded /\ \E file \in ProcessedFiles : Exhausted(file))
    => (pc = "returned" /\ state.status = "max_retries")

\* C3: if at least one scenario was processed and the last attempt of every
\* processed scenario passed (possibly after failed attempts), runOrchestrator
\* returns status passed and success.
C3_AllEndedPassedGivesPassed ==
  (Orchestrating /\ pc = "returned" /\ ProcessedFiles # {}
     /\ \A file \in ProcessedFiles : EndedPassed(file))
    => (state.status = "passed" /\ output = "success")

\* C4: runOrchestrator returns status passed only if at least one scenario
\* was processed and the last attempt of every processed scenario passed.
C4_PassedOnlyIfAllEndedPassed ==
  (Orchestrating /\ pc = "returned" /\ state.status = "passed")
    => (ProcessedFiles # {} /\ \A file \in ProcessedFiles : EndedPassed(file))

\* C4 witness: a run over two scenarios returned with status passed
C4_Witness ==
  /\ Orchestrating
  /\ pc = "returned"
  /\ state.status = "passed"
  /\ Cardinality(ProcessedFiles) = 2

\* C5: the entry point exits with code 0 if and only if runOrchestrator
\* returned with final status passed; an escaping exception gives non-zero.
C5_ExitZeroIffPassed ==
  (Orchestrating /\ exitCode # -1)
    => (exitCode = 0 <=> (pc = "returned" /\ state.status = "passed"))

\* "once a step failed, every later step is skipped with duration 0"
SkippedAfterFailure(stepResults) ==
  \A i \in 1..Len(stepResults) : \A j \in (i + 1)..Len(stepResults) :
    stepResults[i].status = "failed"
      => (stepResults[j].status = "skipped" /\ stepResults[j].duration = 0)

\* no step recorded as skipped was handed to the driver in this run
SkippedNotExecuted(stepResults) ==
  \A j \in 1..Len(stepResults) :
    stepResults[j].status = "skipped"
      => ~(\E c \in 1..Len(driverCalls) : driverCalls[c] = j)

\* C6: in the step results runScenario builds and returns (PlaywrightAdapter
\* and TestExecutor), every step after a failed step is skipped with
\* duration 0 and was not handed to the driver.
C6_NoStepAfterFailure ==
  /\ SkippedAfterFailure(run.stepResults) /\ SkippedNotExecuted(run.stepResults)
  /\ SkippedAfterFailure(exec.stepResults) /\ SkippedNotExecuted(exec.stepResults)
  /\ SkippedAfterFailure(testResult.steps)
  /\ SkippedAfterFailure(execResult.steps)
  /\ \A k \in 1..Len(state.results) : SkippedAfterFailure(state.results[k].steps)

\* C6 witness: PlaywrightAdapter.runScenario returned a result whose first
\* step failed and whose second step was skipped
C6_Witness ==
  /\ pc = "record"
  /\ Len(testResult.steps) = 2
  /\ testResult.steps[1].status = "failed"
  /\ testResult.steps[2].status = "skipped"
  /\ driverCalls = <<1>>

\* C7: the steps of the TestResult of every run attempt of a valid scenario
\* are, in order, the steps of the flattened step list of the scenario.
C7_OneStepResultPerStep ==
  /\ Orchestrating => \A k \in 1..Len(state.results) :
       LET result == state.results[k]
           doc    == dir[result.scenarioFile]
           steps  == filterStepsForPlatform(
                       [j \in 1..Len(doc.steps) |-> Act(doc.steps[j])], platform)
       IN  Len(validateScenario(LibParse(doc))) = 0 =>
             /\ Len(result.steps) = Len(steps)
             /\ \A j \in 1..Len(steps) : result.steps[j].id = steps[j].name
  /\ execResult.status # "none" =>
       LET steps == filterStepsForPlatform(execScenario, platform)
       IN  /\ Len(execResult.steps) = Len(steps)
           /\ \A j \in 1..Len(steps) : execResult.steps[j].step = steps[j]

\* C8: every TestResult of a run attempt, the synthetic ones included, has
\* status passed if and only if all of its StepResults are passed.
AllStepsPassed(result) ==
  \A j \in 1..Len(result.steps) : result.steps[j].status = "passed"

C8_PassedIffAllStepsPassed ==
  /\ Orchestrating => \A k \in 1..Len(state.results) :
       state.results[k].status = "passed" <=> AllStepsPassed(state.results[k])
  /\ testResult.status # "none" =>
       (testResult.status = "passed" <=> AllStepsPassed(testResult))
  /\ execResult.status # "none" =>
       (execResult.status = "passed" <=> AllStepsPassed(execResult))

\* C9: a run attempt that ends in the synthetic failed result never aborts
\* runOrchestrator: the run ends by returning, and without
\* stopOnFirstFailure every loaded scenario has been processed.
C9_SyntheticFailureDoesNotAbort ==
  (RunEnded /\ \E k \in 1..Len(state.results) : Synthetic(state.results[k]))
    => /\ pc = "returned"
       /\ ~config.stopOnFirstFailure => scenarioIdx > Len(scenarioMap)

\* a document with all of its required keys
WellFormed(doc) == doc.hasName /\ doc.hasDescription /\ doc.hasSteps

\* loadAllScenarios is over: returned, or left by an exception
LoadReturned ==
  \/ pc = "parser.returned"
  \/ Orchestrating /\ state.status # "initializing"
  \/ Orchestrating /\ pc = "returned"

LoadThrown ==
  \/ pc = "parser.thrown"
  \/ Orchestrating /\ pc = "thrown" /\ state.status = "initializing"

\* C10: loadAllScenarios parses each file on its own: once the load is over,
\* every well-formed file of the directory is in the Map that loadAllScenarios
\* returned, whatever the other files are.
C10_BadFileDoesNotAbortLoad ==
  (LoadReturned \/ LoadThrown)
    => \A file \in 1..Len(dir) :
         WellFormed(dir[file])
           => /\ LoadReturned
              /\ \E j \in 1..Len(scenarioMap) : scenarioMap[j].file = file

\* C11: whenever the analyzed test result holds at least one console error,
\* the Analysis that runAnalyzer produces has category logic, whatever the
\* network errors and the failed step's own error message are.
C11_ConsoleErrorGivesLogic ==
  (analysis.outcome = "analysis" /\ Len(analyzerInput.testResult.consoleErrors) > 0)
    => analysis.category = "logic"

\* C12: an Analysis produced by runAnalyzer never has confidence high when
\* its affectedFiles is empty.
C12_NoHighWithoutFiles ==
  (analysis.outcome = "analysis" /\ analysis.affectedFiles = <<>>)
    => analysis.confidence # "high"

\* C12 witness: a selector failure on a step with a target, for which no
\* candidate file exists: the confidence is medium
C12_Witness ==
  /\ analysis.outcome = "analysis"
  /\ analysis.affectedFiles = <<>>
  /\ analysis.category = "selector"
  /\ FailedStep(analyzerInput.testResult).target = "button.submit"
  /\ analysis.confidence = "medium"

\* a locator of the text-based fallback list
IsTextSelector(sel) ==
  /\ sel # <<>>
  /\ Head(sel) \in { "text=\"", "text=", "button:has-text(\"", "a:has-text(\"",
                     "*:has-text(\"" }

\* the raw selectors of the three structural forms
Structural(t) ==
  \/ startsWith(t, <<"@">>)
  \/ startsWith(t, <<"#">>)
  \/ startsWith(t, <<"x", "p", "a", "t", "h", ":">>)

\* C13: a raw selector @x resolves to accessibility id x, #x to id x and
\* xpath:E to xpath E, and neither driver's element lookup expands a selector
\* of these three forms into text-based locators.
C13_StructuralSelectorsNotExpanded ==
  /\ (lookup.resolved /\ startsWith(target, <<"@">>))
       => (lookup.strategy = "accessibility id" /\ lookup.selector = Tail(target))
  /\ (lookup.resolved /\ startsWith(target, <<"#">>))
       => (lookup.strategy = "id" /\ lookup.selector = Tail(target))
  /\ (lookup.resolved /\ startsWith(target, <<"x", "p", "a", "t", "h", ":">>))
       => (lookup.strategy = "xpath" /\ lookup.selector = SubSeq(target, 7, Len(target)))
  /\ (lookup.resolved /\ Structural(target))
       => ~IsTextSelector(lookup.selector)
  /\ (lookup.expanded /\ Structural(target))
       => \A k \in 1..Len(lookup.selectors) : ~IsTextSelector(lookup.selectors[k])

\* positions in a step tree: the index in the list, then the indexes inside
\* the branches entered
MaxWidth == 3
MaxDepth == 3
StepPaths == UNION { [1..n -> 1..MaxWidth] : n \in 1..MaxDepth }

NoStep == [kind |-> "none"]

\* the step at a position, entering only the branches of the platform
RECURSIVE StepAt(_, _, _)
StepAt(steps, path, p) ==
  IF path[1] > Len(steps) THEN NoStep
  ELSE LET step == steps[path[1]]
       IN  IF Len(path) = 1
           THEN (IF step.kind \in {"action", "string"} THEN step ELSE NoStep)
           ELSE IF step.kind # "platform" THEN NoStep
           ELSE IF p = "ios"
           THEN (IF step.hasIos THEN StepAt(step.ios, Tail(path), p) ELSE NoStep)
           ELSE (IF step.hasAndroid THEN StepAt(step.android, Tail(path), p) ELSE NoStep)

\* the positions of the non-branch steps that belong to the platform
StepLeaves(steps, p) == { path \in StepPaths : StepAt(steps, path, p) # NoStep }

\* document order of two positions
PathBefore(a, b) ==
  \E i \in 1..MaxDepth :
    /\ i <= Len(a) /\ i <= Len(b)
    /\ a[i] < b[i]
    /\ \A j \in 1..(i - 1) : a[j] = b[j]

\* a bare string step is run as the action of that name
AsAction(step) == IF step.kind = "string" THEN Act(step.name) ELSE step

\* C14: the step list filterStepsForPlatform gives runScenario holds exactly
\* the non-branch steps of the scenario and of the branches of the requested
\* platform, nested branches included, in document order; a branch without
\* an entry for the platform contributes nothing.
C14_FlattenDepthFirst ==
  (entry = "executor" /\ pc = "exec.steps")
    => LET leaves == StepLeaves(execScenario, platform)
       IN  /\ Len(exec.steps) = Cardinality(leaves)
           /\ \A path \in leaves :
                exec.steps[1 + Cardinality({ q \in leaves : PathBefore(q, path) })]
                  = AsAction(StepAt(execScenario, path, platform))

\* C14 witness: the scenario with a branch inside a branch, flattened for
\* ios into tap, log, wait
C14_Witness ==
  /\ entry = "executor" /\ pc = "exec.steps" /\ platform = "ios"
  /\ execScenario =
       <<Branch(TRUE, <<Branch(TRUE, <<Act("tap")>>, TRUE, <<Act("see")>>), Act("log")>>,
                TRUE, <<>>), Act("wait")>>
  /\ exec.steps = <<Act("tap"), Act("log"), Act("wait")>>

\* C15: in a generated report every scenario with recorded attempts has one
\* scenario report, whose status is passed if and only if at least one of
\* the attempts passed, wherever in the order of attempts it is, and failed
\* otherwise.
C15_RollUpPassedIffAnyAttemptPassed ==
  report.generated =>
    /\ \A j \in 1..Len(state.results) :
         HasReport(report.scenarios, state.results[j].scenarioFile)
    /\ \A k \in 1..Len(report.scenarios) :
         /\ report.scenarios[k].status \in {"passed", "failed"}
         /\ report.scenarios[k].status = "passed"
              <=> \E j \in AttemptsOf(report.scenarios[k].file) :
                    state.results[j].status = "passed"

\* C15 witness: a report over a scenario whose first attempt passed and
\* whose last attempt failed; it is reported passed
C15_Witness ==
  /\ report.generated
  /\ Len(state.results) >= 2
  /\ state.results[1].scenarioFile = 1 /\ state.results[1].status = "passed"
  /\ LastAttempt(1).status = "failed"
  /\ report.scenarios[ReportIndex(report.scenarios, 1)].status = "passed"

\* C16: the iterations count of the report summary is the number of run
\* attempts of the whole run, that is the number of recorded TestResults.
C16_IterationsIsTotalAttempts ==
  (Orchestrating /\ report.generated)
    => report.summary.iterations = Len(state.results)

\* the scenario files that were loaded
LoadedFiles == { scenarioMap[k].file : k \in 1..Len(scenarioMap) }

\* C17: after a run over at least one scenario the text summary lists every
\* loaded scenario with its status, and REMAINING FAILURES has an entry for
\* every loaded scenario without a passing attempt, also when its last
\* attempt has no failed step and when the scenario was never reached.
C17_SummaryListsEveryScenario ==
  (Orchestrating /\ pc = "returned" /\ Len(scenarioMap) > 0
     /\ config.maxIterations >= 1)
    => /\ report.generated
       /\ \A file \in LoadedFiles :
            /\ \E k \in 1..Len(report.text.details) :
                 report.text.details[k].file = file
            /\ (\A j \in AttemptsOf(file) : state.results[j].status # "passed")
                 => \E k \in 1..Len(report.text.remaining) :
                      report.text.remaining[k].file = file

\* a run attempt of the scenario at position k of the Map has been started
AttemptStarted(k) ==
  \/ NumAttempts(scenarioMap[k].file) > 0
  \/ (scenarioIdx = k /\ pc \in {"runner", "initialize", "navigate", "steps", "record"})

\* C18: with stopOnFirstFailure set, a run attempt of a scenario is started
\* only if every scenario before it ended with a passing attempt.
C18_StopOnFirstFailureStopsBatch ==
  (Orchestrating /\ config.stopOnFirstFailure)
    => \A k \in 1..Len(scenarioMap) :
         AttemptStarted(k) => \A j \in 1..(k - 1) : EndedPassed(scenarioMap[j].file)

\* C18 witness: stopOnFirstFailure, two scenarios; the first ended without
\* passing and the run returned without an attempt of the second
C18_Witness ==
  /\ Orchestrating /\ config.stopOnFirstFailure
  /\ pc = "returned"
  /\ Len(scenarioMap) = 2
  /\ NumAttempts(scenarioMap[1].file) > 0
  /\ ~EndedPassed(scenarioMap[1].file)
  /\ NumAttempts(scenarioMap[2].file) = 0

\* the scenario file is inside the filter the command line gave
InFilter(file) ==
  /\ args.scenario # 0 => file = args.scenario
  /\ OrchestratorInput(args).hasTags
       => dir[file].tags \cap OrchestratorInput(args).tags # {}

\* C19: when the CLI is given --tags or --scenario, only the scenarios
\* inside the filter get run attempts.
C19_OnlyFilteredScenariosRun ==
  (entry = "cli" /\ args # NoArgs)
    => \A k \in 1..Len(state.results) : InFilter(state.results[k].scenarioFile)

\* C20: the TestResult of a run attempt, also of one that an exception
\* aborted after some steps, is passed or failed and holds the StepResults
\* of the steps that were executed.
C20_AbortedRunKeepsStepResults ==
  (Orchestrating /\ pc = "record")
    => /\ testResult.status \in {"passed", "failed"}
       /\ testResult.steps = run.stepResults

\* the run attempts of a scenario file, in the order they were recorded; the
\* k-th of them was made at iteration k
AttemptSeq(file) == SelectSeq(state.results, LAMBDA r : r.scenarioFile = file)

NumAnalyses(file) ==
  Cardinality({ k \in 1..Len(state.analyses) : state.analyses[k].scenarioFile = file })

NumFixes(file) ==
  Cardinality({ k \in 1..Len(state.fixes) : state.fixes[k].analysis.scenarioFile = file })

\* a run attempt of the current scenario is under way
AttemptRunning == pc \in {"runner", "initialize", "navigate", "steps", "record"}

\* C24: a passed TestResult of a scenario is the last TestResult recorded for
\* it, no analysis or fix is started on a passed result, and no attempt is
\* started for a scenario that has a passed result.
C24_PassedAttemptIsLast ==
  Orchestrating =>
    /\ \A file \in 1..Len(dir) : \A k \in AttemptsOf(file) :
         state.results[k].status = "passed" => \A j \in AttemptsOf(file) : j <= k
    /\ pc \in {"analyze", "fix"} => state.results[Len(state.results)].status = "failed"
    /\ AttemptRunning =>
         \A k \in AttemptsOf(CurrentFile) : state.results[k].status # "passed"

\* C24 witness: a returned run in which a scenario failed once and then
\* passed
C24_Witness ==
  /\ Orchestrating /\ pc = "returned"
  /\ \E file \in 1..Len(dir) :
       /\ NumAttempts(file) = 2
       /\ AttemptSeq(file)[1].status = "failed"
       /\ AttemptSeq(file)[2].status = "passed"

\* C25: when the run has ended, every scenario has at most maxIterations - 1
\* analyses, and as many analyses as failed attempts made at an iteration
\* below maxIterations.
C25_AnalysesOfFailedAttemptsBelowMax ==
  (RunEnded /\ config.maxIterations >= 1) =>
    \A file \in 1..Len(dir) :
      /\ NumAnalyses(file) <= config.maxIterations - 1
      /\ NumAnalyses(file) =
           Cardinality({ k \in 1..Len(AttemptSeq(file)) :
                           /\ k < config.maxIterations
                           /\ AttemptSeq(file)[k].status = "failed" })

\* C26: while an attempt at iteration i runs, i - 1 analyses and (with
\* autoApply) i - 1 fixes of the scenario have been made; and in a run that
\* returned, every failed attempt below maxIterations was followed by another
\* attempt, every analysis belongs to a failed attempt that was followed by
\* another attempt, and with autoApply there is one fix per analysis.
C26_FailureAnalysedFixedRerun ==
  Orchestrating =>
    /\ AttemptRunning =>
         /\ NumAnalyses(CurrentFile) = iteration - 1
         /\ config.autoApply => NumFixes(CurrentFile) = iteration - 1
    /\ pc = "returned" =>
         \A file \in 1..Len(dir) :
           /\ \A k \in 1..Len(AttemptSeq(file)) :
                (AttemptSeq(file)[k].status = "failed" /\ k < config.maxIterations)
                  => k < Len(AttemptSeq(file))
           /\ NumAnalyses(file) =
                Cardinality({ k \in 1..Len(AttemptSeq(file)) :
                                /\ k < Len(AttemptSeq(file))
                                /\ AttemptSeq(file)[k].status = "failed" })
           /\ config.autoApply => NumFixes(file) = NumAnalyses(file)

TerminalStatus == {"passed", "failed", "max_retries"}

\* C28: on return the status is passed, failed or max_retries; while the
\* status holds one of these values no run attempt, analysis or fix is under
\* way; and the status never moves back nor from one of these values to
\* another.
C28_StatusStateMachine ==
  /\ [](Orchestrating =>
          /\ pc = "returned" => state.status \in TerminalStatus
          /\ state.status \in TerminalStatus
               => ~(AttemptRunning \/ pc \in {"analyze", "fix"}))
  /\ [][Orchestrating =>
          \/ state'.status = state.status
          \/ state.status = "initializing"
          \/ (state.status = "running" /\ state'.status \in TerminalStatus)]_vars

\* the precedence of the failure categories as positions of FAILURE_PATTERNS:
\* element not found, timeout, expected to be visible, URL mismatch, value
\* mismatch, and then the remaining entries
PrecedenceOrder == <<1, 3, 2, 4, 5, 6, 7>>

\* C27: without console and network errors the category of an analysis is
\* that of the first pattern that matches the failed step's error, taken in
\* the precedence element-not-found -> selector, timeout -> timing,
\* expected-to-be-visible -> selector, URL/value mismatch -> state; when no
\* pattern matches the category is selector and the root cause is the raw
\* error text
C27_CategoryByPatternPrecedence ==
  ( /\ entry = "analyzer"
    /\ pc = "analyzer.returned"
    /\ analyzerInput.testResult.consoleErrors = <<>>
    /\ analyzerInput.testResult.networkErrors = <<>> ) =>
    LET error == FailedStep(analyzerInput.testResult).error
        matching == { k \in 1..Len(PrecedenceOrder) :
                        error \in FAILURE_PATTERNS[PrecedenceOrder[k]].matches }
    IN  IF matching = {}
        THEN analysis.category = "selector" /\ analysis.rootCause = <<error>>
        ELSE analysis.category =
               FAILURE_PATTERNS[PrecedenceOrder[FirstMatch(matching)]].category

\* the ids reachable from `from` along the requires lists of the scenarios in
\* the map
RECURSIVE Reachable(_, _)
Reachable(scenarios, from) ==
  LET more == from \cup UNION { { scenarios[id].requires[k] :
                                    k \in 1..Len(scenarios[id].requires) } : id \in from }
  IN  IF more = from THEN from ELSE Reachable(scenarios, more)

Positions(order, id) == { k \in 1..Len(order) : order[k] = id }

RECURSIVE SumOver(_, _)
SumOver(set, f) ==
  IF set = {} THEN 0
  ELSE LET x == CHOOSE y \in set : TRUE
       IN  f[x] + SumOver(set \ {x}, f)

\* what is left to do in resolveDependencies: the ids not visited yet with
\* their lists, and the turns left in the for-loops of the running calls
Remaining(d) ==
  LET unvisited == [id \in ScenarioIds |-> Len(d.scenarios[id].requires) + 2]
      frame == [k \in 1..Len(d.stack) |->
                  Len(d.scenarios[d.stack[k].id].requires) - d.stack[k].next + 2]
  IN  SumOver(ScenarioIds \ d.visited, unvisited) + SumOver(1..Len(d.stack), frame)

\* C29: resolveDependencies terminates for every requires graph (every step
\* makes what is left to do smaller); the list it returns ends with the
\* requested id, holds the id and each of its transitive requirements exactly
\* once, and places every scenario after all the scenarios it requires; it
\* throws when a required id is not in the map
C29_ResolveDependenciesOrder ==
  /\ [](entry = "deps" =>
          LET needed == Reachable(deps.scenarios, {deps.scenarioId})
          IN  /\ pc = "deps.returned" =>
                   /\ deps.order[Len(deps.order)] = deps.scenarioId
                   /\ \A id \in needed : Cardinality(Positions(deps.order, id)) = 1
                   /\ \A k \in 1..Len(deps.order) :
                        /\ deps.order[k] \in needed
                        /\ \A j \in 1..Len(deps.scenarios[deps.order[k]].requires) :
                             \E i \in 1..(k - 1) :
                               deps.order[i] = deps.scenarios[deps.order[k]].requires[j]
              /\ (\E id \in needed : ~deps.scenarios[id].present) =>
                   pc \in {"deps.start", "deps.visit", "deps.thrown"})
  /\ [][entry = "deps" => Remaining(deps') < Remaining(deps)]_vars

\* the set numbers of the rows of session_sets of an exercise, in the order
\* of the numbers, and of the sets of an exercise in the store
SetNumbers(sets) == [k \in 1..Len(sets) |-> sets[k].setNumber]

OneToN(numbers) == \A k \in 1..Len(numbers) : numbers[k] = k

SetCallRunning == TasksOf("addSet") \cup TasksOf("removeSet") # {} \/ queries.detailFetching

Distinct(numbers) ==
  \A i \in 1..Len(numbers) : \A j \in 1..Len(numbers) : i # j => numbers[i] # numbers[j]

\* C21: once the addSet and removeSet calls have completed, the sets of every
\* exercise are numbered 1..n in order, in the database and in the store
\* (stated for the exercises whose set numbers are distinct, so that a
\* number handed out twice by interleaved addSet calls is not what is checked)
C21_SetsRenumberedAfterRemove ==
  (entry = "workout" /\ ~SetCallRunning) =>
    /\ \A e \in 1..Len(db.exercises) :
         LET numbers == SetNumbers(getSetsByExerciseId(db, e))
         IN  Distinct(numbers) => OneToN(numbers)
    /\ \A e \in 1..Len(store.exercises) :
         LET numbers == SetNumbers(store.exercises[e].sets)
         IN  Distinct(numbers) => OneToN(numbers)

UncompletedSessions == { i \in 1..Len(db.sessions) : db.sessions[i].completedAt = 0 }

\* C22: after any sequence of opening, leaving and returning to the workout
\* page at most one uncompleted session exists for the template
C22_AtMostOneUncompletedSession ==
  entry = "workout" => Cardinality(UncompletedSessions) <= 1

\* the names and set numbers of the exercises of a session
Content(session) ==
  [k \in 1..Len(session.exercises) |->
     [name |-> session.exercises[k].name, sets |-> SetNumbers(session.exercises[k].sets)]]

TemplateContent == [k \in 1..Len(TemplateExercises) |-> [name |-> TemplateExercises[k], sets |-> <<>>]]

\* C23: a session that startWorkout has populated holds a copy of the
\* exercises and sets of the last completed session when that session has
\* exercises, and the exercises of the template only otherwise
C23_NewSessionCopiesLastCompleted ==
  [][ \A k \in TasksOf("startWorkout") :
        (tasks[k].pc = "populate" /\ tasks' = RemoveAt(tasks, k)) =>
          LET last == getLastCompletedSession(db)
              created == Content(getSessionWithExercises(db', tasks[k].sessionId))
          IN  IF last # NoSession /\ Len(last.exercises) > 0
              THEN created = Content(last)
              ELSE created = TemplateContent ]_vars

\* C30: no two sets of an exercise have the same set number
C30_SetNumbersUnique ==
  entry = "workout" =>
    \A i \in 1..Len(db.sets) : \A j \in 1..Len(db.sets) :
      ( /\ i # j
        /\ ~db.sets[i].deleted /\ ~db.sets[j].deleted
        /\ db.sets[i].exerciseId = db.sets[j].exerciseId ) =>
        db.sets[i].setNumber # db.sets[j].setNumber

====
